---- MODULE Spec2Model ----
(***************************************************************************)
(* Verification model of the EVA backend's chat and memory core:           *)
(*   - GeminiService (app/services/gemini_service.py): the in-process      *)
(*     session cache of conversation histories and the two chat turns      *)
(*     (send_message, send_message_stream);                                *)
(*   - the chat endpoints of app/api/chat.py that wrap those turns with    *)
(*     writes to the durable chat-message log;                             *)
(*   - MemoryService (app/services/memory_service.py): the short-term      *)
(*     message log of each user and its batched clear, the long-term       *)
(*     facts, the compression of messages into facts and the context       *)
(*     handed to the completion call.                                      *)
(* Text (ids, messages, chunks) is a sequence of one-character strings so  *)
(* that concatenation, prefix tests and replacement are computed.          *)
(***************************************************************************)
EXTENDS Integers, Sequences, FiniteSets, TLC

\* ------------------------------------------------------------------ bounds
MaxChunks == 2          \* chunks with text the upstream generation stream may deliver
MaxTurns == 1           \* turns the session cache holds when its methods are called alone
MaxAdds == 2            \* add_message calls of one run
TicksPerHour == 1       \* clock ticks in an hour
MaxClearDocs == 1001    \* documents a clear may have to delete
MaxFacts == 2           \* facts written to the long-term stores in one run
MaxRegs == 2            \* registration requests of one run
MaxSessions == 2        \* sessions created in one run
MaxDevReqs == 2         \* add-device requests of one run
MaxDays == 1            \* days that go by in one run

\* ------------------------------------------------------------- input sets
UserIds == { <<"a">>, <<"b">> }
\* conversation ids a client may send (a request without one is given a
\* generated id, which is one more id); the second contains user a's key prefix
ConvIds == { <<"c">>, <<"a", ":", "c">> }
\* None and "" are both falsy in `conversation_id or 'default'`
NoConv == << >>
ConvArgs == ConvIds \cup {NoConv}
Messages == { <<"h">>, <<"i">> }
Replies == { <<"x">> }
Chunks == { <<"x">>, <<"y">> }
\* two devices of the user, each sending one request, possibly at once
ReqIds == {1, 2}
\* the (role, content) pairs written to the short-term log
RoleContents == { <<"user", <<"h">>>>, <<"assistant", <<"x">>>> }
SessionIds == { <<"s">> }
\* None and "" are both falsy in `if session_id:`
NoSession == << >>
SessionArgs == SessionIds \cup {NoSession}
Limits == { 1, 2 }
\* contents, categories and importances of the facts a caller saves
FactContents == { <<"k">>, <<"l">> }
Categories == { "preference" }
\* None and "" are both falsy in `if category:`
NoCategory == ""
ListCategories == {"preference", "fact"}
SearchContents == {<<"K", "l">>, <<"l">>, <<"m">>}
SearchQueries == {<<"k">>, <<"L">>, << >>}
RegIds == 1..MaxRegs
max_users == 5          \* Settings.max_users: int = 5
\* Google account ids ('sub'): one that may be registered already and new ones
Subs == {1} \cup ((max_users + 1)..(max_users + MaxRegs))
\* ID tokens: the valid token of an account, or a token Google rejects
IdTokens == [valid : {TRUE}, sub : Subs] \cup {[valid |-> FALSE, sub |-> 0]}
DeviceIds == {<<"d">>}
AddedDeviceIds == { <<"d">>, <<"e">> }
DevReqIds == 1..MaxDevReqs
\* session data: a dict is the set of its <<key, value>> items
DataArgs == { {}, {<<"p", 1>>}, {<<"p", 2>>}, {<<"q", 1>>} }
\* the importance argument: left out, or an integer
ImportanceArgs == { << >>, <<-5>>, <<0>>, <<7>>, <<15>> }
\* the fields update_memory is asked to overwrite
Updates == { [importance |-> 15], [content |-> <<"l">>] }
\* the user whose chat requests are followed
ChatUserIds == { <<"a">> }

\* ------------------------------------------------------ program constants
DefaultConv == <<"d", "e", "f", "a", "u", "l", "t">>
SendApology == <<"S">>      \* "I'm sorry, I encountered an issue processing your request. Please try again."
StreamApology == <<"T">>    \* "I'm sorry, I encountered an issue. Please try again."
BatchLimit == 500
short_term_expiry_hours == 24
default_importance == 5     \* save_memory(importance: int = 5)
None == << >>
max_short_term_messages == 50  \* self.max_short_term_messages = 50
search_candidates == 100    \* get_memories(user_id, limit=100) in search_memories
summarize_limit == 30       \* get_conversation_context(user_id, limit=30)
NoMessagesError == <<"No messages to summarize">>
MemoryHeader == <<"User information from previous conversations:", "\n">>

VARIABLES
    hist,       \* GeminiService._conversation_histories: key -> sequence of turns
    reqs,       \* the chat requests in flight: slot -> locals and position
    chatLog,    \* durable chat messages: <<user, conversation>> -> sequence
    stLog,      \* users/{u}/short_term_context: user -> set of message documents
    now,        \* the wall clock read by datetime.utcnow()
    nextId,     \* documents created so far (document ids)
    clr,        \* locals of one run of the batched delete loop
    ltm,        \* users/{u}/long_term_memory: user -> set of fact documents
    nextMemId,  \* fact documents created so far (document ids)
    lastOp,     \* the last call made on a service, with its arguments
    prevOp,     \* the call before it, where two calls in a row are followed
    ret,        \* what the last call returned
    users,      \* the users collection: the uids that have a document
    regs,       \* registration requests: id -> locals and position
    sessions,   \* the sessions collection: set of session documents
    nextSessId, \* sessions created so far
    userDoc,    \* the document users/{uid} of the signed-in user: exists, devices
    devReqs     \* add-device requests: id -> locals and position

vars == <<hist, reqs, chatLog, stLog, now, nextId, clr, ltm, nextMemId, lastOp, prevOp, ret,
          users, regs, sessions, nextSessId, userDoc, devReqs>>
callVars == <<lastOp, prevOp, ret>>
cacheVars == <<hist, reqs, chatLog>>
memVars == <<stLog, now, nextId>>
longVars == <<ltm, nextMemId>>
acctVars == <<users, regs, sessions, nextSessId, userDoc, devReqs>>
devVars == <<userDoc, devReqs>>

\* ------------------------------------------------------------ text helpers
startswith(s, p) == Len(s) >= Len(p) /\ SubSeq(s, 1, Len(p)) = p

\* str.replace(p, ""): every non-overlapping occurrence of p, left to right
RECURSIVE replace(_, _)
replace(s, p) ==
    IF s = << >> THEN << >>
    ELSE IF startswith(s, p) THEN replace(SubSeq(s, Len(p) + 1, Len(s)), p)
    ELSE <<Head(s)>> \o replace(Tail(s), p)

\* ------------------------------------------------------------ session cache
\* a slip: the key is built from the user alone
_get_session_key_user_only(user_id, conversation_id) ==
    user_id \o <<":">> \o DefaultConv

\* f"{user_id}:{conversation_id or 'default'}"
_get_session_key(user_id, conversation_id) ==
    user_id \o <<":">> \o (IF conversation_id = NoConv THEN DefaultConv ELSE conversation_id)

Content(role, text, rid) == [role |-> role, text |-> text, rid |-> rid]

\* the cache after _get_history: the key holds a list, an empty one if it was absent
_get_history(h, user_id, conversation_id) ==
    LET key == _get_session_key(user_id, conversation_id)
    IN  IF key \in DOMAIN h THEN h
        ELSE [k \in DOMAIN h \cup {key} |-> IF k = key THEN << >> ELSE h[k]]

\* the list _get_history returns
HistoryOf(h, user_id, conversation_id) ==
    _get_history(h, user_id, conversation_id)[_get_session_key(user_id, conversation_id)]

_append_to_history(h, user_id, conversation_id, role, text, rid) ==
    LET key == _get_session_key(user_id, conversation_id)
        h1 == _get_history(h, user_id, conversation_id)
    IN  [h1 EXCEPT ![key] = Append(@, Content(role, text, rid))]

\* a slip: the default key is cleared whatever conversation is named
clear_conversation_default_key(h, user_id, conversation_id) ==
    LET key == _get_session_key(user_id, NoConv)
    IN  IF key \in DOMAIN h THEN [k \in DOMAIN h \ {key} |-> h[k]] ELSE h

clear_conversation(h, user_id, conversation_id) ==
    LET key == _get_session_key(user_id, conversation_id)
    IN  IF key \in DOMAIN h THEN [k \in DOMAIN h \ {key} |-> h[k]] ELSE h

get_active_conversations(h, user_id) ==
    LET prefix == user_id \o <<":">>
    IN  { replace(key, prefix) : key \in { k \in DOMAIN h : startswith(k, prefix) } }

\* the turns the cache holds for a key, none when the key is absent
Turns(h, user_id, conversation_id) ==
    LET key == _get_session_key(user_id, conversation_id)
    IN  IF key \in DOMAIN h THEN h[key] ELSE << >>

\* ------------------------------------------------- durable chat-message log
\* firestore_service.save_chat_message: one more message of the conversation
save_chat_message(log, user_id, conversation_id, role, content, rid) ==
    [log EXCEPT ![<<user_id, conversation_id>>] =
        Append(@, [role |-> role, content |-> content, rid |-> rid])]

\* firestore_service.delete_conversation: the conversation's messages are gone
delete_conversation(log, user_id, conversation_id) ==
    [log EXCEPT ![<<user_id, conversation_id>>] = << >>]

\* ---------------------------------------------------------- request slots
IdleReq ==
    [kind |-> "none", user |-> << >>, conv |-> << >>, msg |-> << >>, pc |-> "idle",
     contents |-> << >>, prior |-> << >>, cold |-> FALSE,
     full |-> << >>, yielded |-> << >>, resp |-> << >>, err |-> FALSE, epFull |-> << >>]

\* a call: the method, the user, the conversation or session, a number
\* (the limit asked for, or how many entries the call found)
Op(op, user, arg, n) == [op |-> op, user |-> user, arg |-> arg, n |-> n]

\* slots are taken in order
Free(r) == reqs[r].pc = "idle" /\ \A q \in ReqIds : q < r => reqs[q].pc # "idle"

InFlight(r) == reqs[r].pc \notin {"idle", "done"}

\* a request that has returned: its locals are gone
Finished(q) == [IdleReq EXCEPT !.kind = q.kind, !.user = q.user, !.conv = q.conv, !.pc = "done"]

\* the locals of a chat turn once the durable write of the user message is made
Started(kind, u, c, m) ==
    [IdleReq EXCEPT !.kind = kind, !.user = u, !.conv = c, !.msg = m, !.pc = "saved_user"]

\* a slip: contents = history, the new message is left out
Begun_without_message(q, r) ==
    [q EXCEPT !.contents = HistoryOf(hist, q.user, q.conv),
              !.cold = _get_session_key(q.user, q.conv) \notin DOMAIN hist,
              !.prior = SelectSeq(chatLog[<<q.user, q.conv>>], LAMBDA d : d.rid # r)]

\* history = self._get_history(...); contents = history + [user_content]
Begun(q, r) ==
    [q EXCEPT !.contents = Append(HistoryOf(hist, q.user, q.conv), Content("user", q.msg, r)),
              !.cold = _get_session_key(q.user, q.conv) \notin DOMAIN hist,
              !.prior = SelectSeq(chatLog[<<q.user, q.conv>>], LAMBDA d : d.rid # r)]

\* ------------------------------------------- POST /chat/send (chat.py, gemini)
\* chat.py send_message up to the first durable write
StartSend(r, u, c, m) ==
    /\ Free(r)
    /\ chatLog' = save_chat_message(chatLog, u, c, "user", m, r)
    /\ reqs' = [reqs EXCEPT ![r] = Started("send", u, c, m)]
    /\ UNCHANGED <<hist, memVars, clr, longVars, callVars, acctVars>>

\* a slip: the user turn is appended to the cache before the completion call
SendBegin_appends_user_turn(r) ==
    /\ reqs[r].kind = "send" /\ reqs[r].pc = "saved_user"
    /\ hist' = _append_to_history(hist, reqs[r].user, reqs[r].conv, "user", reqs[r].msg, r)
    /\ reqs' = [reqs EXCEPT ![r] = [Begun(@, r) EXCEPT !.pc = "calling"]]
    /\ UNCHANGED <<chatLog, memVars, clr, longVars, callVars, acctVars>>

\* GeminiService.send_message up to the awaited completion call
SendBegin(r) ==
    /\ reqs[r].kind = "send" /\ reqs[r].pc = "saved_user"
    /\ hist' = _get_history(hist, reqs[r].user, reqs[r].conv)
    /\ reqs' = [reqs EXCEPT ![r] = [Begun(@, r) EXCEPT !.pc = "calling"]]
    /\ UNCHANGED <<chatLog, memVars, clr, longVars, callVars, acctVars>>

\* the completion call returned response_text
SendReturn(r, response_text) ==
    /\ reqs[r].kind = "send" /\ reqs[r].pc = "calling"
    /\ hist' = _append_to_history(
                   _append_to_history(hist, reqs[r].user, reqs[r].conv, "user", reqs[r].msg, r),
                   reqs[r].user, reqs[r].conv, "model", response_text, r)
    /\ reqs' = [reqs EXCEPT ![r].resp = response_text, ![r].pc = "replied"]
    /\ UNCHANGED <<chatLog, memVars, clr, longVars, callVars, acctVars>>

\* a slip: the user turn is appended before the call, so a failure leaves it behind
SendFail_keeps_user_turn(r) ==
    /\ reqs[r].kind = "send" /\ reqs[r].pc = "calling"
    /\ hist' = _append_to_history(hist, reqs[r].user, reqs[r].conv, "user", reqs[r].msg, r)
    /\ reqs' = [reqs EXCEPT ![r].resp = SendApology, ![r].err = TRUE, ![r].pc = "replied"]
    /\ UNCHANGED <<chatLog, memVars, clr, longVars, callVars, acctVars>>

\* the completion call raised: except Exception -> the fixed text
SendFail(r) ==
    /\ reqs[r].kind = "send" /\ reqs[r].pc = "calling"
    /\ reqs' = [reqs EXCEPT ![r].resp = SendApology, ![r].err = TRUE, ![r].pc = "replied"]
    /\ UNCHANGED <<hist, chatLog, memVars, clr, longVars, callVars, acctVars>>

\* chat.py send_message after the service call: the reply is written through
SaveReply(r) ==
    /\ reqs[r].kind = "send" /\ reqs[r].pc = "replied"
    /\ chatLog' = save_chat_message(chatLog, reqs[r].user, reqs[r].conv,
                                    "assistant", reqs[r].resp, r)
    /\ reqs' = [reqs EXCEPT ![r] = Finished(@)]
    /\ UNCHANGED <<hist, memVars, clr, longVars, callVars, acctVars>>

\* ------------------------------------ POST /chat/send/stream (chat.py, gemini)
\* chat.py send_message_stream up to the StreamingResponse
StartStream(r, u, c, m) ==
    /\ Free(r)
    /\ chatLog' = save_chat_message(chatLog, u, c, "user", m, r)
    /\ reqs' = [reqs EXCEPT ![r] = Started("stream", u, c, m)]
    /\ UNCHANGED <<hist, memVars, clr, longVars, callVars, acctVars>>

Streaming(r) == reqs[r].kind = "stream" /\ reqs[r].pc \in {"saved_user", "streaming"}

\* the generator's locals and the cache when it is resumed: its first segment
\* runs the code before the loop (the key is created, contents are built)
Resumed(r) == IF reqs[r].pc = "saved_user" THEN Begun(reqs[r], r) ELSE reqs[r]
ResumedHist(r) ==
    IF reqs[r].pc = "saved_user" THEN _get_history(hist, reqs[r].user, reqs[r].conv) ELSE hist

\* a slip: full_response = chunk.text instead of +=
StreamChunk_overwrites(r, chunk_text) ==
    /\ reqs[r].kind = "stream" /\ reqs[r].pc \in {"saved_user", "streaming"}
    /\ Len(reqs[r].yielded) < MaxChunks
    /\ hist' = IF reqs[r].pc = "saved_user"
               THEN _get_history(hist, reqs[r].user, reqs[r].conv) ELSE hist
    /\ reqs' = [reqs EXCEPT ![r] =
           [(IF reqs[r].pc = "saved_user" THEN Begun(reqs[r], r) ELSE reqs[r])
               EXCEPT !.pc = "streaming",
                      !.full = chunk_text,
                      !.yielded = Append(@, chunk_text),
                      !.epFull = @ \o chunk_text]]
    /\ UNCHANGED <<chatLog, memVars, clr, longVars, callVars, acctVars>>

\* one segment of GeminiService.send_message_stream that ends at `yield chunk.text`:
\* chunks without text are passed over inside the segment and change nothing;
\* chunk_text is accumulated and yielded, and generate() of chat.py accumulates it
StreamChunk(r, chunk_text) ==
    /\ Streaming(r)
    /\ Len(reqs[r].yielded) < MaxChunks
    /\ hist' = ResumedHist(r)
    /\ reqs' = [reqs EXCEPT ![r] =
           [Resumed(r) EXCEPT !.pc = "streaming",
                              !.full = @ \o chunk_text,
                              !.yielded = Append(@, chunk_text),
                              !.epFull = @ \o chunk_text]]
    /\ UNCHANGED <<chatLog, memVars, clr, longVars, callVars, acctVars>>

\* a slip: the reply is appended before the user turn
StreamFinish_model_first(r) ==
    /\ Streaming(r)
    /\ hist' = _append_to_history(
                   _append_to_history(ResumedHist(r), reqs[r].user, reqs[r].conv,
                                      "model", reqs[r].full, r),
                   reqs[r].user, reqs[r].conv, "user", reqs[r].msg, r)
    /\ reqs' = [reqs EXCEPT ![r] =
           [Resumed(r) EXCEPT !.pc = "streamed", !.resp = reqs[r].full]]
    /\ UNCHANGED <<chatLog, memVars, clr, longVars, callVars, acctVars>>

\* the segment in which the upstream stream ends: both turns are appended
StreamFinish(r) ==
    /\ Streaming(r)
    /\ hist' = _append_to_history(
                   _append_to_history(ResumedHist(r), reqs[r].user, reqs[r].conv,
                                      "user", reqs[r].msg, r),
                   reqs[r].user, reqs[r].conv, "model", reqs[r].full, r)
    /\ reqs' = [reqs EXCEPT ![r] =
           [Resumed(r) EXCEPT !.pc = "streamed", !.resp = reqs[r].full]]
    /\ UNCHANGED <<chatLog, memVars, clr, longVars, callVars, acctVars>>

\* a slip: the turns are appended in a finally clause, so also when the stream raised
StreamRaise_appends_partial(r) ==
    /\ reqs[r].kind = "stream" /\ reqs[r].pc \in {"saved_user", "streaming"}
    /\ hist' = _append_to_history(
                   _append_to_history(hist, reqs[r].user, reqs[r].conv, "user", reqs[r].msg, r),
                   reqs[r].user, reqs[r].conv, "model", reqs[r].full, r)
    /\ reqs' = [reqs EXCEPT ![r] =
           [(IF reqs[r].pc = "saved_user" THEN Begun(reqs[r], r) ELSE reqs[r])
               EXCEPT !.pc = "raised", !.err = TRUE, !.epFull = @ \o StreamApology]]
    /\ UNCHANGED <<chatLog, memVars, clr, longVars, callVars, acctVars>>

\* the segment in which the upstream stream (or its creation) raises:
\* except Exception -> the fixed text is yielded, nothing is appended
StreamRaise(r) ==
    /\ Streaming(r)
    /\ hist' = ResumedHist(r)
    /\ reqs' = [reqs EXCEPT ![r] =
           [Resumed(r) EXCEPT !.pc = "raised", !.err = TRUE, !.epFull = @ \o StreamApology]]
    /\ UNCHANGED <<chatLog, memVars, clr, longVars, callVars, acctVars>>

\* generate() of chat.py after the loop: the accumulated text is written through
SaveStreamReply(r) ==
    /\ reqs[r].kind = "stream" /\ reqs[r].pc \in {"streamed", "raised"}
    /\ chatLog' = save_chat_message(chatLog, reqs[r].user, reqs[r].conv,
                                    "assistant", reqs[r].epFull, r)
    /\ reqs' = [reqs EXCEPT ![r] = Finished(@)]
    /\ UNCHANGED <<hist, memVars, clr, longVars, callVars, acctVars>>

\* the client goes away while the response is suspended at a yield: the
\* generators are closed where they stand and run no further statement
Disconnect(r) ==
    /\ reqs[r].kind = "stream" /\ InFlight(r)
    /\ reqs' = [reqs EXCEPT ![r] = Finished(@)]
    /\ UNCHANGED <<hist, chatLog, memVars, clr, longVars, callVars, acctVars>>

\* --------------------------------------------- DELETE /chat/{conversation_id}
StartDelete(r, u, c) ==
    /\ Free(r)
    /\ chatLog' = delete_conversation(chatLog, u, c)
    /\ reqs' = [reqs EXCEPT ![r] = [IdleReq EXCEPT !.kind = "delete", !.user = u,
                                                   !.conv = c, !.pc = "deleted"]]
    /\ UNCHANGED <<hist, memVars, clr, longVars, callVars, acctVars>>

FinishDelete(r) ==
    /\ reqs[r].kind = "delete" /\ reqs[r].pc = "deleted"
    /\ hist' = clear_conversation(hist, reqs[r].user, reqs[r].conv)
    /\ reqs' = [reqs EXCEPT ![r] = Finished(@)]
    /\ UNCHANGED <<chatLog, memVars, clr, longVars, callVars, acctVars>>

\* clear_conversation called on its own ("New Chat", "forget the conversation")
ForgetConversation(u, c) ==
    /\ hist' = clear_conversation(hist, u, c)
    /\ UNCHANGED <<reqs, chatLog, memVars, clr, longVars, callVars, acctVars>>

\* ------------------------------------------------------------ specification
NoOp == Op("init", << >>, << >>, 0)
IdleClr == [n |-> 0, i |-> 0, count |-> 0, batch |-> 0, commits |-> << >>, pc |-> "idle"]

\* a registration request that has not arrived yet
IdleReg == [pc |-> "idle", sub |-> 0, user_count |-> 0, status |-> 0]

\* an add-device request that has not arrived yet
IdleDev == [pc |-> "idle", device_id |-> << >>, devices |-> << >>]

\* the signed-in user has no device and no add-device request has arrived
NoDevices ==
    /\ userDoc = [exists |-> TRUE, devices |-> << >>]
    /\ devReqs = [q \in DevReqIds |-> IdleDev]

\* no user is registered and no session exists
NoAccounts ==
    /\ users = {}
    /\ regs = [g \in RegIds |-> IdleReg]
    /\ sessions = {}
    /\ nextSessId = 0
    /\ NoDevices

Init ==
    /\ hist = << >>
    /\ reqs = [r \in ReqIds |-> IdleReq]
    /\ chatLog = [k \in UserIds \X ConvIds |-> << >>]
    /\ stLog = [u \in UserIds |-> {}]
    /\ now = 0
    /\ nextId = 0
    /\ ltm = [u \in UserIds |-> {}]
    /\ nextMemId = 0
    /\ clr = IdleClr
    /\ lastOp = NoOp
    /\ prevOp = NoOp
    /\ ret = << >>
    /\ NoAccounts

Next ==
    \/ \E r \in ReqIds, u \in ChatUserIds, c \in ConvIds, m \in Messages : StartSend(r, u, c, m)
    \/ \E r \in ReqIds : SendBegin(r)
    \/ \E r \in ReqIds, t \in Replies : SendReturn(r, t)
    \/ \E r \in ReqIds : SendFail(r)
    \/ \E r \in ReqIds : SaveReply(r)
    \/ \E r \in ReqIds, u \in ChatUserIds, c \in ConvIds, m \in Messages : StartStream(r, u, c, m)
    \/ \E r \in ReqIds, t \in Chunks : StreamChunk(r, t)
    \/ \E r \in ReqIds : StreamFinish(r)
    \/ \E r \in ReqIds : StreamRaise(r)
    \/ \E r \in ReqIds : SaveStreamReply(r)
    \/ \E r \in ReqIds : Disconnect(r)
    \/ \E r \in ReqIds, u \in ChatUserIds, c \in ConvIds : StartDelete(r, u, c)
    \/ \E r \in ReqIds : FinishDelete(r)
    \/ \E u \in ChatUserIds, c \in ConvIds : ForgetConversation(u, c)

Spec == Init /\ [][Next]_vars

\* ------------------------------- the session cache's methods, called one by one
CachedTurns == { <<k, i>> : k \in DOMAIN hist, i \in 1..MaxTurns }
TotalTurns == Cardinality({ p \in CachedTurns : p[2] <= Len(hist[p[1]]) })

AppendToHistory(u, c, role, text) ==
    /\ TotalTurns < MaxTurns
    /\ hist' = _append_to_history(hist, u, c, role, text, 0)
    /\ lastOp' = Op("_append_to_history", u, c, 0)
    /\ prevOp' = lastOp
    /\ ret' = << >>
    /\ UNCHANGED <<reqs, chatLog, memVars, clr, longVars, acctVars>>

ClearConversation(u, c) ==
    /\ hist' = clear_conversation(hist, u, c)
    /\ lastOp' = Op("clear_conversation", u, c, Len(Turns(hist, u, c)))
    /\ prevOp' = lastOp
    /\ ret' = << >>
    /\ UNCHANGED <<reqs, chatLog, memVars, clr, longVars, acctVars>>

GetHistory(u, c) ==
    /\ hist' = _get_history(hist, u, c)
    /\ lastOp' = Op("_get_history", u, c, 0)
    /\ prevOp' = lastOp
    /\ ret' = HistoryOf(hist, u, c)
    /\ UNCHANGED <<reqs, chatLog, memVars, clr, longVars, acctVars>>

GetActiveConversations(u) ==
    /\ lastOp' = Op("get_active_conversations", u, NoConv, 0)
    /\ prevOp' = lastOp
    /\ ret' = get_active_conversations(hist, u)
    /\ UNCHANGED <<hist, reqs, chatLog, memVars, clr, longVars, acctVars>>

NextCache ==
    \/ \E u \in UserIds, c \in ConvArgs, m \in Messages : AppendToHistory(u, c, "user", m)
    \/ \E u \in UserIds, c \in ConvArgs, t \in Replies : AppendToHistory(u, c, "model", t)
    \/ \E u \in UserIds, c \in ConvArgs : ClearConversation(u, c)
    \/ \E u \in UserIds, c \in ConvArgs : GetHistory(u, c)
    \/ \E u \in UserIds : GetActiveConversations(u)

SpecCache == Init /\ [][NextCache]_vars

\* the methods that read or write one entry, with one message text
NextPairs ==
    \/ \E u \in UserIds, c \in ConvArgs : AppendToHistory(u, c, "user", <<"h">>)
    \/ \E u \in UserIds, c \in ConvArgs : ClearConversation(u, c)
    \/ \E u \in UserIds, c \in ConvArgs : GetHistory(u, c)

SpecPairs == Init /\ [][NextPairs]_vars

\* ------------------------------------------- MemoryService: short-term context
\* a message document of users/{user_id}/short_term_context (metadata, an
\* opaque map that no query reads, is left out)
MessageDoc(id, role, content, session_id, timestamp, expires_at) ==
    [id |-> id, role |-> role, content |-> content, session_id |-> session_id,
     timestamp |-> timestamp, expires_at |-> expires_at]

\* add_message: utcnow() is read twice, `drift` ticks apart
add_message(id, role, content, session_id, drift) ==
    MessageDoc(id, role, content, session_id, now,
               now + drift + short_term_expiry_hours * TicksPerHour)

\* FieldFilter("session_id", "==", session_id), applied only `if session_id:`
Matching(docs, session_id) ==
    IF session_id = NoSession THEN docs ELSE { d \in docs : d.session_id = session_id }

\* order_by("timestamp", DESCENDING); equal timestamps fall back on the document name
Newer(d1, d2) ==
    \/ d1.timestamp > d2.timestamp
    \/ d1.timestamp = d2.timestamp /\ d1.id > d2.id

RECURSIVE OrderByTimestampDesc(_)
OrderByTimestampDesc(docs) ==
    IF docs = {} THEN << >>
    ELSE LET d == CHOOSE x \in docs : \A y \in docs \ {x} : Newer(x, y)
         IN  <<d>> \o OrderByTimestampDesc(docs \ {d})

LimitTo(seq, limit) == SubSeq(seq, 1, IF limit < Len(seq) THEN limit ELSE Len(seq))

reversed(seq) == [i \in 1..Len(seq) |-> seq[Len(seq) + 1 - i]]

\* a slip: the oldest messages are taken (ascending order)
get_recent_messages_oldest(docs, limit, session_id) ==
    LimitTo(reversed(OrderByTimestampDesc(Matching(docs, session_id))), limit)

\* a slip: the limit cuts the log before the session filter is applied
get_recent_messages_limit_first(docs, limit, session_id) ==
    LET newest == LimitTo(OrderByTimestampDesc(docs), limit)
    IN  reversed(SelectSeq(newest, LAMBDA d : session_id = NoSession \/ d.session_id = session_id))

get_recent_messages(docs, limit, session_id) ==
    reversed(LimitTo(OrderByTimestampDesc(Matching(docs, session_id)), limit))

\* the batched delete of clear_short_term_context: its locals before the loop
BatchStart(n) ==
    [n |-> n, i |-> 0, count |-> 0, batch |-> 0, commits |-> << >>, pc |-> "loop"]

\* one pass of `for doc in docs`: batch.delete, count += 1, commit at a full batch
BatchIter(st) ==
    LET count == st.count + 1
        batch == st.batch + 1
    IN  IF count % BatchLimit = 0
        THEN [st EXCEPT !.i = @ + 1, !.count = count, !.batch = 0,
                        !.commits = Append(@, batch)]
        ELSE [st EXCEPT !.i = @ + 1, !.count = count, !.batch = batch]

\* a slip: the deletes left after the last full batch are never committed
BatchFinish_no_last_commit(st) == [st EXCEPT !.pc = "done"]

\* a slip: the last batch is committed even when it is empty
BatchFinish_always_commits(st) ==
    [st EXCEPT !.batch = 0, !.commits = Append(@, st.batch), !.pc = "done"]

\* after the loop: `if count % 500 != 0: batch.commit()`, then return count
BatchFinish(st) ==
    IF st.count % BatchLimit # 0
    THEN [st EXCEPT !.batch = 0, !.commits = Append(@, st.batch), !.pc = "done"]
    ELSE [st EXCEPT !.pc = "done"]

RECURSIVE RunBatches(_)
RunBatches(st) == IF st.i < st.n THEN RunBatches(BatchIter(st)) ELSE BatchFinish(st)

RECURSIVE Sum(_)
Sum(seq) == IF seq = << >> THEN 0 ELSE Head(seq) + Sum(Tail(seq))

\* the documents a finished run has deleted: those of the committed batches
Deleted(docs, st) ==
    LET order == OrderByTimestampDesc(docs)
    IN  { order[i] : i \in 1..Sum(st.commits) }

AddMessage(u, role, content, session_id, drift) ==
    /\ nextId < MaxAdds
    /\ LET doc == add_message(nextId + 1, role, content, session_id, drift)
       IN  /\ stLog' = [stLog EXCEPT ![u] = @ \cup {doc}]
           /\ ret' = doc
    /\ nextId' = nextId + 1
    /\ now' = now + drift + 1      \* the clock moves on while the store is written
    /\ lastOp' = Op("add_message", u, session_id, 0)
    /\ prevOp' = lastOp
    /\ UNCHANGED <<cacheVars, clr, longVars, acctVars>>

GetRecentMessages(u, limit, session_id) ==
    /\ ret' = get_recent_messages(stLog[u], limit, session_id)
    /\ lastOp' = Op("get_recent_messages", u, session_id, limit)
    /\ prevOp' = lastOp
    /\ UNCHANGED <<cacheVars, memVars, clr, longVars, acctVars>>

ClearShortTermContext(u, session_id) ==
    /\ LET docs == Matching(stLog[u], session_id)
           st == RunBatches(BatchStart(Cardinality(docs)))
       IN  /\ stLog' = [stLog EXCEPT ![u] = @ \ Deleted(docs, st)]
           /\ ret' = st.count
    /\ lastOp' = Op("clear_short_term_context", u, session_id, Cardinality(stLog[u]))
    /\ prevOp' = lastOp
    /\ UNCHANGED <<cacheVars, now, nextId, clr, longVars, acctVars>>

NextMem ==
    \/ \E u \in UserIds, rc \in RoleContents, session_id \in SessionArgs, drift \in 0..1 :
            AddMessage(u, rc[1], rc[2], session_id, drift)
    \/ \E u \in UserIds, limit \in Limits, session_id \in SessionArgs :
            GetRecentMessages(u, limit, session_id)
    \/ \E u \in UserIds, session_id \in SessionArgs : ClearShortTermContext(u, session_id)

SpecMem == Init /\ [][NextMem]_vars

\* ------------------------------------- the batched delete, one pass at a time
InitClear ==
    /\ hist = << >>
    /\ reqs = [r \in ReqIds |-> IdleReq]
    /\ chatLog = [k \in UserIds \X ConvIds |-> << >>]
    /\ stLog = [u \in UserIds |-> {}]
    /\ now = 0
    /\ nextId = 0
    /\ ltm = [u \in UserIds |-> {}]
    /\ nextMemId = 0
    /\ clr \in { BatchStart(n) : n \in 0..MaxClearDocs }
    /\ lastOp = NoOp
    /\ prevOp = NoOp
    /\ ret = << >>
    /\ NoAccounts

ClearIter ==
    /\ clr.pc = "loop" /\ clr.i < clr.n
    /\ clr' = BatchIter(clr)
    /\ UNCHANGED <<cacheVars, memVars, longVars, callVars, acctVars>>

ClearFinish ==
    /\ clr.pc = "loop" /\ clr.i = clr.n
    /\ clr' = BatchFinish(clr)
    /\ UNCHANGED <<cacheVars, memVars, longVars, callVars, acctVars>>

NextClear == ClearIter \/ ClearFinish

SpecClear == InitClear /\ [][NextClear]_vars

\* ============================================================ long-term facts
\* min(max(importance, 1), 10) is computed with these
max(a, b) == IF a >= b THEN a ELSE b
min(a, b) == IF a <= b THEN a ELSE b

\* hashlib.sha256(content.encode()).hexdigest()[:16]: a digest of the content,
\* different for the different contents of FactContents
sha256_16(content) == <<"#">> \o content

\* a slip: the importance is stored as the caller gave it
save_memory_unclamped(id, category, content, importance, metadata) ==
    [id |-> id, category |-> category, content |-> content,
     content_hash |-> sha256_16(content), importance |-> importance,
     metadata |-> metadata, access_count |-> 0]

\* the document save_memory writes (created_at and updated_at, which no
\* operation reads, are left out)
save_memory(id, category, content, importance, metadata) ==
    [id |-> id, category |-> category, content |-> content,
     content_hash |-> sha256_16(content), importance |-> min(max(importance, 1), 10),
     metadata |-> metadata, access_count |-> 0]

\* the value of a keyword argument that may be left out
Given(arg, default) == IF arg = << >> THEN default ELSE arg[1]

\* doc_ref.get().exists
Exists(docs, memory_id) == \E d \in docs : d.id = memory_id

\* doc_ref.update(updates): the fields named by `updates` are overwritten
update_memory(doc, updates) ==
    [k \in DOMAIN doc |-> IF k \in DOMAIN updates THEN updates[k] ELSE doc[k]]

\* order_by("importance", DESCENDING); equal importances fall back on the document name
MoreImportant(d1, d2) ==
    \/ d1.importance > d2.importance
    \/ d1.importance = d2.importance /\ d1.id > d2.id

RECURSIVE OrderByImportanceDesc(_)
OrderByImportanceDesc(docs) ==
    IF docs = {} THEN << >>
    ELSE LET d == CHOOSE x \in docs : \A y \in docs \ {x} : MoreImportant(x, y)
         IN  <<d>> \o OrderByImportanceDesc(docs \ {d})

\* a slip: the limit cuts the list before the category filter is applied
get_memories_limit_before_filter(docs, category, limit) ==
    LET top == LimitTo(OrderByImportanceDesc(docs), limit)
    IN  IF category = NoCategory THEN top
        ELSE SelectSeq(top, LAMBDA d : d.category = category)

\* FieldFilter("category", "==", category), applied only `if category:`
get_memories(docs, category, limit) ==
    LimitTo(OrderByImportanceDesc(
                IF category = NoCategory THEN docs
                ELSE { d \in docs : d.category = category }), limit)

SaveMemory(u, category, content, importance) ==
    /\ nextMemId < MaxFacts
    /\ LET doc == save_memory(nextMemId + 1, category, content,
                              Given(importance, default_importance), {})
       IN  /\ ltm' = [ltm EXCEPT ![u] = @ \cup {doc}]
           /\ ret' = doc
    /\ nextMemId' = nextMemId + 1
    /\ lastOp' = Op("save_memory", u, content, importance)
    /\ UNCHANGED <<cacheVars, memVars, clr, prevOp, acctVars>>

GetMemories(u, category, limit) ==
    /\ ret' = get_memories(ltm[u], category, limit)
    /\ lastOp' = Op("get_memories", u, category, limit)
    /\ UNCHANGED <<cacheVars, memVars, clr, longVars, prevOp, acctVars, devVars>>

\* str.lower(), on the letters the contents and queries are made of
lower(text) ==
    [i \in 1..Len(text) |-> CASE text[i] = "K" -> "k"
                              [] text[i] = "L" -> "l"
                              [] text[i] = "M" -> "m"
                              [] OTHER -> text[i]]

\* Python's `sub in text`
contains(sub, text) ==
    \E i \in 1..(Len(text) + 1) :
        /\ i + Len(sub) - 1 <= Len(text)
        /\ SubSeq(text, i, i + Len(sub) - 1) = sub

\* a slip: every fact of the store is looked at
search_memories_all_facts(docs, query, limit) ==
    LimitTo(SelectSeq(OrderByImportanceDesc(docs),
                      LAMBDA mem : contains(lower(query), lower(mem.content))), limit)

\* all_memories = get_memories(user_id, limit=100), then the keyword filter
search_memories(docs, query, limit) ==
    LET all_memories == get_memories(docs, NoCategory, search_candidates)
        query_lower == lower(query)
        matching == SelectSeq(all_memories,
                              LAMBDA mem : contains(query_lower, lower(mem.content)))
    IN  LimitTo(matching, limit)

SearchMemories(u, query, limit) ==
    /\ ret' = search_memories(ltm[u], query, limit)
    /\ lastOp' = Op("search_memories", u, query, limit)
    /\ UNCHANGED <<cacheVars, memVars, clr, longVars, prevOp, acctVars, devVars>>

\* a slip: the fact is looked up in the stores of all users
UpdateMemory_any_user(u, memory_id, updates) ==
    /\ IF \E v \in UserIds : Exists(ltm[v], memory_id)
       THEN LET v == CHOOSE w \in UserIds : Exists(ltm[w], memory_id)
                doc == CHOOSE d \in ltm[v] : d.id = memory_id
                data == update_memory(doc, updates)
            IN  /\ ltm' = [ltm EXCEPT ![v] = (@ \ {doc}) \cup {data}]
                /\ ret' = data
       ELSE /\ ltm' = ltm
            /\ ret' = None
    /\ lastOp' = Op("update_memory", u, memory_id, 0)
    /\ UNCHANGED <<cacheVars, memVars, clr, prevOp, nextMemId, acctVars>>

UpdateMemory(u, memory_id, updates) ==
    /\ IF Exists(ltm[u], memory_id)
       THEN LET doc == CHOOSE d \in ltm[u] : d.id = memory_id
                data == update_memory(doc, updates)
            IN  /\ ltm' = [ltm EXCEPT ![u] = (@ \ {doc}) \cup {data}]
                /\ ret' = data
       ELSE /\ ltm' = ltm
            /\ ret' = None
    /\ lastOp' = Op("update_memory", u, memory_id, 0)
    /\ UNCHANGED <<cacheVars, memVars, clr, prevOp, nextMemId, acctVars>>

\* a slip: the deletion reports success without looking for the document
DeleteMemory_always_true(u, memory_id) ==
    /\ ltm' = [ltm EXCEPT ![u] = { d \in @ : d.id # memory_id }]
    /\ ret' = TRUE
    /\ lastOp' = Op("delete_memory", u, memory_id, 0)
    /\ UNCHANGED <<cacheVars, memVars, clr, prevOp, nextMemId, acctVars>>

DeleteMemory(u, memory_id) ==
    /\ ltm' = [ltm EXCEPT ![u] = { d \in @ : d.id # memory_id }]
    /\ ret' = Exists(ltm[u], memory_id)
    /\ lastOp' = Op("delete_memory", u, memory_id, 0)
    /\ UNCHANGED <<cacheVars, memVars, clr, prevOp, nextMemId, acctVars>>

\* ------------------------------------------------- summarizing and compressing
\* a Python dict with the keys `keys`; the fields outside `keys` are not there
Dict(keys, summary, facts, topics, error) ==
    [type |-> "object", keys |-> keys, summary |-> summary, facts |-> facts,
     topics |-> topics, error |-> error]

\* a parsed JSON value that is no object, or the failure to parse
NotADict(type) ==
    [type |-> type, keys |-> {}, summary |-> << >>, facts |-> << >>,
     topics |-> << >>, error |-> << >>]

\* an exception that leaves the coroutine
Raised(exception) == [type |-> "raise", exception |-> exception]

\* one entry of the "facts" list of the summarizer's reply
FactDict(keys, category, content, importance) ==
    [keys |-> keys, category |-> category, content |-> content, importance |-> importance]

\* dict.get(key, default)
get(dict, key, default) == IF key \in dict.keys THEN dict[key] ELSE default

\* what the summarizer call does: the credential is missing, the call raises,
\* or it returns a text; `json` is what json.loads makes of that text
Outcome(kind, text, json) == [kind |-> kind, text |-> text, json |-> json]

SummarizerOutcomes ==
    { Outcome("no_key", <<"OPENAI_API_KEY not configured for AI summarization">>,
              NotADict("JSONDecodeError")),
      Outcome("raises", <<"E">>, NotADict("JSONDecodeError")),
      \* free-form text
      Outcome("returns", <<"z">>, NotADict("JSONDecodeError")),
      \* []
      Outcome("returns", <<"[", "]">>, NotADict("array")),
      \* null
      Outcome("returns", <<"n", "u", "l", "l">>, NotADict("null")),
      \* {}
      Outcome("returns", <<"{", "}">>, Dict({}, << >>, << >>, << >>, << >>)),
      \* {"summary": "s", "facts": [{"content": "k", "importance": 15}], "topics": ["t"]}
      Outcome("returns", <<"{", "1", "}">>,
              Dict({"summary", "facts", "topics"}, <<"s">>,
                   << FactDict({"content", "importance"}, "", <<"k">>, 15) >>,
                   << <<"t">> >>, << >>)),
      \* {"summary": "s", "facts": [{"category": "preference", "content": "k", "importance": 7},
      \*                              {"content": "k"}], "topics": []}
      Outcome("returns", <<"{", "2", "}">>,
              Dict({"summary", "facts", "topics"}, <<"s">>,
                   << FactDict({"category", "content", "importance"}, "preference", <<"k">>, 7),
                      FactDict({"content"}, "", <<"k">>, 0) >>,
                   << >>, << >>)) }

\* json.loads(result_text)
json_loads(outcome) == outcome.json

\* the `messages` argument of summarize_conversation: None, or a list
MessagesArgs ==
    { [given |-> FALSE, list |-> << >>],
      [given |-> TRUE, list |-> << >>],
      [given |-> TRUE, list |-> << [role |-> "user", content |-> <<"h">>] >>] }

get_conversation_context(docs, limit) ==
    LET messages == get_recent_messages(docs, limit, NoSession)
    IN  [i \in 1..Len(messages) |->
            [role |-> messages[i].role, content |-> messages[i].content]]

\* the messages summarize_conversation works on
MessagesToSummarize(docs, arg) ==
    IF arg.given THEN arg.list ELSE get_conversation_context(docs, summarize_limit)

\* a slip: an empty conversation is reported as a successful empty summary
summarize_conversation_empty_ok(messages, outcome) ==
    IF messages = << >>
    THEN Dict({"summary", "facts", "topics"}, << >>, << >>, << >>, << >>)
    ELSE IF outcome.kind \in {"no_key", "raises"}
    THEN Dict({"summary", "facts", "topics", "error"}, << >>, << >>, << >>, outcome.text)
    ELSE IF json_loads(outcome).type = "JSONDecodeError"
    THEN Dict({"summary", "facts", "topics"}, outcome.text, << >>, << >>, << >>)
    ELSE json_loads(outcome)

summarize_conversation(messages, outcome) ==
    IF messages = << >>
    THEN Dict({"summary", "facts", "error"}, << >>, << >>, << >>, NoMessagesError)
    ELSE IF outcome.kind \in {"no_key", "raises"}
    THEN Dict({"summary", "facts", "topics", "error"}, << >>, << >>, << >>, outcome.text)
    ELSE IF json_loads(outcome).type = "JSONDecodeError"
    THEN Dict({"summary", "facts", "topics"}, outcome.text, << >>, << >>, << >>)
    ELSE json_loads(outcome)

\* client.chat.completions.create calls made by summarize_conversation
SummarizerCalls(messages, outcome) ==
    IF messages = << >> \/ outcome.kind = "no_key" THEN 0 ELSE 1

\* the facts of the summary saved one after the other, document ids from `id` on
RECURSIVE SaveFacts(_, _)
SaveFacts(facts, id) ==
    IF facts = << >> THEN << >>
    ELSE LET fact == Head(facts)
         IN  << save_memory(id + 1, get(fact, "category", "fact"), get(fact, "content", << >>),
                            get(fact, "importance", default_importance),
                            {<<"source", "conversation_compression">>}) >>
             \o SaveFacts(Tail(facts), id + 1)

\* a slip: the "error" key of the summary is not looked at
compress_to_long_term_ignores_error(summary_result, id) ==
    IF summary_result.type = "null"
    THEN [result |-> Raised("TypeError"), saved |-> << >>]
    ELSE IF summary_result.type = "array"
    THEN [result |-> Raised("AttributeError"), saved |-> << >>]
    ELSE LET saved_facts == SaveFacts(get(summary_result, "facts", << >>), id)
         IN  [result |-> [type |-> "object",
                          keys |-> {"summary", "topics", "facts_saved", "facts"},
                          summary |-> get(summary_result, "summary", << >>),
                          topics |-> get(summary_result, "topics", << >>),
                          facts_saved |-> Len(saved_facts),
                          facts |-> saved_facts],
              saved |-> saved_facts]

\* a slip: the saved facts are reported newest first
compress_to_long_term_newest_first(summary_result, id) ==
    IF summary_result.type = "null"
    THEN [result |-> Raised("TypeError"), saved |-> << >>]
    ELSE IF summary_result.type = "array"
    THEN [result |-> Raised("AttributeError"), saved |-> << >>]
    ELSE IF "error" \in summary_result.keys
    THEN [result |-> summary_result, saved |-> << >>]
    ELSE LET saved_facts == SaveFacts(get(summary_result, "facts", << >>), id)
         IN  [result |-> [type |-> "object",
                          keys |-> {"summary", "topics", "facts_saved", "facts"},
                          summary |-> get(summary_result, "summary", << >>),
                          topics |-> get(summary_result, "topics", << >>),
                          facts_saved |-> Len(saved_facts),
                          facts |-> reversed(saved_facts)],
              saved |-> saved_facts]

\* compress_to_long_term once summarize_conversation has returned: what it
\* returns or raises, and the documents it has saved by then
compress_to_long_term(summary_result, id) ==
    IF summary_result.type = "null"
    THEN \* "error" in None
         [result |-> Raised("TypeError"), saved |-> << >>]
    ELSE IF summary_result.type = "array"
    THEN \* summary_result.get on a list
         [result |-> Raised("AttributeError"), saved |-> << >>]
    ELSE IF "error" \in summary_result.keys
    THEN [result |-> summary_result, saved |-> << >>]
    ELSE LET saved_facts == SaveFacts(get(summary_result, "facts", << >>), id)
         IN  [result |-> [type |-> "object",
                          keys |-> {"summary", "topics", "facts_saved", "facts"},
                          summary |-> get(summary_result, "summary", << >>),
                          topics |-> get(summary_result, "topics", << >>),
                          facts_saved |-> Len(saved_facts),
                          facts |-> saved_facts],
              saved |-> saved_facts]

SummarizeConversation(u, arg, outcome) ==
    /\ LET messages == MessagesToSummarize(stLog[u], arg)
       IN  /\ ret' = summarize_conversation(messages, outcome)
           /\ lastOp' = Op("summarize_conversation", u, outcome,
                           SummarizerCalls(messages, outcome))
    /\ UNCHANGED <<cacheVars, memVars, clr, prevOp, longVars, acctVars>>

\* a slip: the messages that were compressed are removed from the log
CompressToLongTerm_clears_log(u, outcome) ==
    /\ LET messages == MessagesToSummarize(stLog[u], [given |-> FALSE, list |-> << >>])
           out == compress_to_long_term(summarize_conversation(messages, outcome), nextMemId)
       IN  /\ nextMemId + Len(out.saved) <= MaxFacts
           /\ ltm' = [ltm EXCEPT ![u] = @ \cup { out.saved[i] : i \in 1..Len(out.saved) }]
           /\ nextMemId' = nextMemId + Len(out.saved)
           /\ ret' = out.result
           /\ lastOp' = Op("compress_to_long_term", u, outcome,
                           SummarizerCalls(messages, outcome))
           /\ stLog' = [stLog EXCEPT ![u] = IF out.saved = << >> THEN @ ELSE {}]
    /\ UNCHANGED <<cacheVars, now, nextId, clr, prevOp, acctVars>>

CompressToLongTerm(u, outcome) ==
    /\ LET messages == MessagesToSummarize(stLog[u], [given |-> FALSE, list |-> << >>])
           out == compress_to_long_term(summarize_conversation(messages, outcome), nextMemId)
       IN  /\ nextMemId + Len(out.saved) <= MaxFacts
           /\ ltm' = [ltm EXCEPT ![u] = @ \cup { out.saved[i] : i \in 1..Len(out.saved) }]
           /\ nextMemId' = nextMemId + Len(out.saved)
           /\ ret' = out.result
           /\ lastOp' = Op("compress_to_long_term", u, outcome,
                           SummarizerCalls(messages, outcome))
    /\ UNCHANGED <<cacheVars, memVars, clr, prevOp, acctVars>>

\* the users whose memory is followed
MemUserIds == { <<"a">> }

\* the short-term log of a user who has sent no message yet, one, or one that
\* was answered
FirstLogs ==
    { {},
      { MessageDoc(1, "user", <<"h">>, NoSession, 0, short_term_expiry_hours * TicksPerHour) },
      { MessageDoc(1, "user", <<"h">>, NoSession, 0, short_term_expiry_hours * TicksPerHour),
        MessageDoc(2, "assistant", <<"x">>, NoSession, 1,
                   1 + short_term_expiry_hours * TicksPerHour) } }

InitLong ==
    /\ hist = << >>
    /\ reqs = [r \in ReqIds |-> IdleReq]
    /\ chatLog = [k \in UserIds \X ConvIds |-> << >>]
    /\ \E log \in FirstLogs :
            /\ stLog = [u \in UserIds |-> IF u \in MemUserIds THEN log ELSE {}]
            /\ nextId = Cardinality(log)
    /\ now = 2
    /\ clr = IdleClr
    /\ ltm = [u \in UserIds |-> {}]
    /\ nextMemId = 0
    /\ lastOp = NoOp
    /\ prevOp = NoOp
    /\ ret = << >>
    /\ NoAccounts

NextLong ==
    \/ \E u \in MemUserIds, category \in Categories, content \in FactContents,
          importance \in ImportanceArgs : SaveMemory(u, category, content, importance)
    \/ \E u \in MemUserIds, memory_id \in 1..MaxFacts, updates \in Updates :
            UpdateMemory(u, memory_id, updates)
    \/ \E u \in MemUserIds, memory_id \in 1..MaxFacts : DeleteMemory(u, memory_id)
    \/ \E u \in MemUserIds, outcome \in SummarizerOutcomes : CompressToLongTerm(u, outcome)

SpecLong == InitLong /\ [][NextLong]_vars

\* saving facts of two categories and listing them
NextList ==
    \/ \E u \in MemUserIds, category \in ListCategories, content \in FactContents,
          importance \in ImportanceArgs : SaveMemory(u, category, content, importance)
    \/ \E u \in MemUserIds, category \in ListCategories \cup {NoCategory}, limit \in Limits :
            GetMemories(u, category, limit)

SpecList == InitLong /\ [][NextList]_vars

\* a store that holds more facts than search_memories looks at: fillers that
\* match no query in SearchQueries but the empty one, one fact among the
\* search_candidates most important and one below them
FullStore ==
    { save_memory(i, "fact", <<"m">>, default_importance, {}) : i \in 1..(search_candidates - 1) }
    \cup { save_memory(search_candidates, "fact", <<"l">>, 7, {}),
           save_memory(search_candidates + 1, "fact", <<"K", "l">>, 1, {}) }

InitSearch ==
    /\ hist = << >>
    /\ reqs = [r \in ReqIds |-> IdleReq]
    /\ chatLog = [k \in UserIds \X ConvIds |-> << >>]
    /\ stLog = [u \in UserIds |-> {}]
    /\ nextId = 0
    /\ now = 0
    /\ clr = IdleClr
    /\ \/ /\ ltm = [u \in UserIds |-> {}]
          /\ nextMemId = 0
       \/ /\ ltm = [u \in UserIds |-> IF u \in MemUserIds THEN FullStore
                                      ELSE {save_memory(search_candidates + 2, "fact", <<"l">>, 9, {})}]
          /\ nextMemId = search_candidates + 2
    /\ lastOp = NoOp
    /\ prevOp = NoOp
    /\ ret = << >>
    /\ NoAccounts

\* facts of two users, searched
NextSearch ==
    \/ \E u \in UserIds, category \in Categories, content \in SearchContents,
          importance \in {<< >>, <<7>>} : SaveMemory(u, category, content, importance)
    \/ \E u \in UserIds, query \in SearchQueries, limit \in Limits :
            SearchMemories(u, query, limit)

SpecSearch == InitSearch /\ [][NextSearch]_vars

\* summarizing and compressing, on a store that also holds facts saved directly
NextSum ==
    \/ \E u \in MemUserIds, category \in Categories, content \in FactContents :
            SaveMemory(u, category, content, << >>)
    \/ \E u \in MemUserIds, arg \in MessagesArgs, outcome \in SummarizerOutcomes :
            SummarizeConversation(u, arg, outcome)
    \/ \E u \in MemUserIds, outcome \in SummarizerOutcomes : CompressToLongTerm(u, outcome)

SpecSum == InitLong /\ [][NextSum]_vars

\* ------------------------------------------------------------ context building
\* "\n".join(lines)
RECURSIVE join(_, _)
join(sep, lines) ==
    IF lines = << >> THEN << >>
    ELSE IF Len(lines) = 1 THEN Head(lines)
    ELSE Head(lines) \o sep \o join(sep, Tail(lines))

\* the text of the system entry built from the memories
memory_text(memories) ==
    MemoryHeader \o join(<<"\n">>, [i \in 1..Len(memories) |-> <<"-", " ">> \o memories[i].content])

\* a slip: the long-term facts are read whatever the flag says
build_context_always_long_term(messages, memories, include_long_term, short_term_limit, long_term_limit) ==
    LET mems == get_memories(memories, NoCategory, long_term_limit)
    IN  (IF mems # << >>
         THEN << [role |-> "system", content |-> memory_text(mems)] >> ELSE << >>)
        \o get_conversation_context(messages, short_term_limit)

\* a slip: the system entry is added even when there is no fact to list
build_context_empty_system_entry(messages, memories, include_long_term, short_term_limit, long_term_limit) ==
    LET mems == IF include_long_term
                THEN get_memories(memories, NoCategory, long_term_limit) ELSE << >>
    IN  (IF include_long_term
         THEN << [role |-> "system", content |-> memory_text(mems)] >> ELSE << >>)
        \o get_conversation_context(messages, short_term_limit)

\* build_context over the user's messages and memories
build_context(messages, memories, include_long_term, short_term_limit, long_term_limit) ==
    LET mems == IF include_long_term
                THEN get_memories(memories, NoCategory, long_term_limit) ELSE << >>
    IN  (IF include_long_term /\ mems # << >>
         THEN << [role |-> "system", content |-> memory_text(mems)] >> ELSE << >>)
        \o get_conversation_context(messages, short_term_limit)

GetConversationContext(u, limit) ==
    /\ ret' = get_conversation_context(stLog[u], limit)
    /\ lastOp' = Op("get_conversation_context", u, << >>, limit)
    /\ UNCHANGED <<cacheVars, memVars, clr, longVars, prevOp, acctVars, devVars>>

BuildContext(u, include_long_term, short_term_limit, long_term_limit) ==
    /\ ret' = build_context(stLog[u], ltm[u], include_long_term,
                            short_term_limit, long_term_limit)
    /\ lastOp' = Op("build_context", u,
                    [include_long_term |-> include_long_term,
                     short_term_limit |-> short_term_limit,
                     long_term_limit |-> long_term_limit], 0)
    /\ UNCHANGED <<cacheVars, memVars, clr, longVars, prevOp, acctVars, devVars>>

\* a day goes by without a call
TimePasses ==
    /\ now < MaxDays * 24 * TicksPerHour
    /\ now' = now + 24 * TicksPerHour
    /\ UNCHANGED <<cacheVars, stLog, nextId, clr, longVars, callVars, acctVars>>

NextCtx ==
    \/ \E u \in MemUserIds, category \in Categories, content \in FactContents,
          importance \in { << >>, <<7>> } : SaveMemory(u, category, content, importance)
    \/ TimePasses
    \/ \E u \in MemUserIds, limit \in Limits, session_id \in SessionArgs :
            GetRecentMessages(u, limit, session_id)
    \/ \E u \in MemUserIds, limit \in Limits : GetConversationContext(u, limit)
    \/ \E u \in MemUserIds, include_long_term \in BOOLEAN,
          short_term_limit \in Limits, long_term_limit \in Limits :
            BuildContext(u, include_long_term, short_term_limit, long_term_limit)

SpecCtx == InitLong /\ [][NextCtx]_vars

\* ------------------------------------------------- ConversationService.chat
\* how the chat completion of ConversationService.chat ends: no API key is
\* configured, the call raises, or it returns a reply
ChatOutcomes ==
    { [kind |-> "no_key", reply |-> << >>], [kind |-> "raises", reply |-> << >>] }
    \cup { [kind |-> "returns", reply |-> t] : t \in Replies }

\* the dict chat returns ("model", "usage" and the error text are left out)
ChatResult(success, message) == [success |-> success, message |-> message]

\* chat(user_id, message, session_id): the client is looked up, the user
\* message is added, the completion is asked for, the reply is added; any
\* exception ends the call with success = False
Chat(u, message, session_id, outcome, drift) ==
    /\ nextId + 2 <= MaxAdds
    /\ lastOp' = Op("chat", u, message, outcome)
    /\ prevOp' = lastOp
    /\ IF outcome.kind = "no_key"
       THEN /\ ret' = ChatResult(FALSE, << >>)
            /\ UNCHANGED memVars
       ELSE LET user_doc == add_message(nextId + 1, "user", message, session_id, drift)
                later == now + drift + 1
                assistant_doc == MessageDoc(nextId + 2, "assistant", outcome.reply, session_id,
                                            later, later + drift
                                                     + short_term_expiry_hours * TicksPerHour)
            IN  IF outcome.kind = "raises"
                THEN /\ stLog' = [stLog EXCEPT ![u] = @ \cup {user_doc}]
                     /\ nextId' = nextId + 1
                     /\ now' = later
                     /\ ret' = ChatResult(FALSE, << >>)
                ELSE /\ stLog' = [stLog EXCEPT ![u] = @ \cup {user_doc, assistant_doc}]
                     /\ nextId' = nextId + 2
                     /\ now' = later + drift + 1
                     /\ ret' = ChatResult(TRUE, outcome.reply)
    /\ UNCHANGED <<cacheVars, clr, longVars, acctVars>>

\* chats and single messages of one user
NextConv ==
    \/ \E u \in MemUserIds, rc \in RoleContents, session_id \in SessionArgs, drift \in 0..1 :
            AddMessage(u, rc[1], rc[2], session_id, drift)
    \/ \E u \in MemUserIds, message \in Messages, session_id \in SessionArgs,
          outcome \in ChatOutcomes, drift \in 0..1 : Chat(u, message, session_id, outcome, drift)

SpecConv == Init /\ [][NextConv]_vars

\* a short-term log of n messages written by earlier add_message calls, the
\* newest last (ids and timestamps below those of the run that follows)
StoredMessages(n) ==
    { MessageDoc(i - n, IF i % 2 = 1 THEN "user" ELSE "assistant", <<"h">>, NoSession,
                 i - n - 1, i - n - 1 + short_term_expiry_hours * TicksPerHour) : i \in 1..n }

\* the run starts on a log that is empty, one short of
\* max_short_term_messages, or holds that many
InitBound ==
    /\ hist = << >>
    /\ reqs = [r \in ReqIds |-> IdleReq]
    /\ chatLog = [k \in UserIds \X ConvIds |-> << >>]
    /\ \E n \in {0, max_short_term_messages - 1, max_short_term_messages} :
            stLog = [u \in UserIds |-> IF u \in MemUserIds THEN StoredMessages(n) ELSE {}]
    /\ now = 0
    /\ nextId = 0
    /\ ltm = [u \in UserIds |-> {}]
    /\ nextMemId = 0
    /\ clr = IdleClr
    /\ lastOp = NoOp
    /\ prevOp = NoOp
    /\ ret = << >>
    /\ NoAccounts

\* the summarizer fails, or returns the object with one fact
BoundOutcomes ==
    { o \in SummarizerOutcomes : o.kind = "raises" \/ o.text = <<"{", "1", "}">> }

\* messages, chats and compressions of one user
NextBound ==
    \/ \E u \in MemUserIds : AddMessage(u, "user", <<"h">>, NoSession, 0)
    \/ \E u \in MemUserIds, outcome \in ChatOutcomes : Chat(u, <<"i">>, NoSession, outcome, 0)
    \/ \E u \in MemUserIds, outcome \in BoundOutcomes : CompressToLongTerm(u, outcome)

SpecBound == InitBound /\ [][NextBound]_vars

\* ------------------------------------------ two users on the Context Store
\* what each user writes: the contents of two users never coincide, so a
\* result tells whose data it was made of
OwnMessage(u) == IF u = <<"a">> THEN <<"h">> ELSE <<"i">>
OwnFact(u) == IF u = <<"a">> THEN <<"m">> ELSE <<"n">>
\* the document ids of what each user stored earlier
OwnId(u) == IF u = <<"a">> THEN -1 ELSE 0

\* each user has stored a message and a fact
InitIso ==
    /\ hist = << >>
    /\ reqs = [r \in ReqIds |-> IdleReq]
    /\ chatLog = [k \in UserIds \X ConvIds |-> << >>]
    /\ stLog = [u \in UserIds |->
                    { MessageDoc(OwnId(u), "user", OwnMessage(u), NoSession, OwnId(u) - 1,
                                 OwnId(u) - 1 + short_term_expiry_hours * TicksPerHour) }]
    /\ now = 0
    /\ nextId = 0
    /\ ltm = [u \in UserIds |-> { save_memory(OwnId(u), "fact", OwnFact(u), 7, {}) }]
    /\ nextMemId = 0
    /\ clr = IdleClr
    /\ lastOp = NoOp
    /\ prevOp = NoOp
    /\ ret = << >>
    /\ NoAccounts

\* every operation of MemoryService, called for one user while the other
\* user's documents lie in the store; the ids given to update_memory and
\* delete_memory are those of the caller's fact and of the other user's fact
NextIso ==
    \/ \E u \in MemUserIds : AddMessage(u, "user", OwnMessage(u), NoSession, 0)
    \/ \E u \in MemUserIds : GetRecentMessages(u, 2, NoSession)
    \/ \E u \in MemUserIds : ClearShortTermContext(u, NoSession)
    \/ \E u \in MemUserIds : SaveMemory(u, "preference", OwnFact(u), << >>)
    \/ \E u \in MemUserIds : GetMemories(u, NoCategory, 2)
    \/ \E u \in MemUserIds : SearchMemories(u, << >>, 2)
    \/ \E u \in MemUserIds, memory_id \in (-1)..0 : UpdateMemory(u, memory_id, [importance |-> 15])
    \/ \E u \in MemUserIds, memory_id \in (-1)..0 : DeleteMemory(u, memory_id)
    \/ \E u \in MemUserIds, outcome \in BoundOutcomes : CompressToLongTerm(u, outcome)
    \/ \E u \in MemUserIds : BuildContext(u, TRUE, 2, 2)

SpecIso == InitIso /\ [][NextIso]_vars

\* ------------------------------------------------------------- registration
\* verify_google_token: the account's info, or None for a token Google rejects
verify_google_token(id_token) == IF id_token.valid THEN <<id_token.sub>> ELSE None

\* a registration request answered with `status`
Answered(g, status) == [regs EXCEPT ![g].pc = "done", ![g].status = status]

\* POST /auth/register arrives: register_user verifies the token
Register(g, id_token) ==
    /\ regs[g].pc = "idle"
    /\ LET google_user == verify_google_token(id_token)
       IN  IF google_user = None
           THEN regs' = Answered(g, 400)
           ELSE regs' = [regs EXCEPT ![g].pc = "get_user", ![g].sub = google_user[1]]
    /\ UNCHANGED <<cacheVars, memVars, clr, longVars, callVars, users, sessions, nextSessId, devVars>>

\* existing_user = await firestore_service.get_user(sub)
RegisterGetUser(g) ==
    /\ regs[g].pc = "get_user"
    /\ IF regs[g].sub \in users
       THEN regs' = Answered(g, 409)
       ELSE regs' = [regs EXCEPT ![g].pc = "count_users"]
    /\ UNCHANGED <<cacheVars, memVars, clr, longVars, callVars, users, sessions, nextSessId, devVars>>

\* user_count = await firestore_service.count_users(), compared with the limit
RegisterCountUsers(g) ==
    /\ regs[g].pc = "count_users"
    /\ LET user_count == Cardinality(users)
       IN  IF user_count >= max_users
           THEN regs' = [Answered(g, 403) EXCEPT ![g].user_count = user_count]
           ELSE regs' = [regs EXCEPT ![g].pc = "create_user", ![g].user_count = user_count]
    /\ UNCHANGED <<cacheVars, memVars, clr, longVars, callVars, users, sessions, nextSessId, devVars>>

\* create_user reads the document: an existing one raises ValueError
\* ("User ... already exists"), which register answers with 400
CreateUserExists(g) ==
    /\ regs[g].pc = "create_user"
    /\ IF regs[g].sub \in users
       THEN regs' = Answered(g, 400)
       ELSE regs' = [regs EXCEPT ![g].pc = "set_user"]
    /\ UNCHANGED <<cacheVars, memVars, clr, longVars, callVars, users, sessions, nextSessId, devVars>>

\* user_ref.set(user_dict), and register answers 201 with the token
CreateUserSet(g) ==
    /\ regs[g].pc = "set_user"
    /\ users' = users \cup {regs[g].sub}
    /\ regs' = Answered(g, 201)
    /\ UNCHANGED <<cacheVars, memVars, clr, longVars, callVars, sessions, nextSessId, devVars>>

\* registrations arrive while 0..max_users users are registered already
InitReg ==
    /\ hist = << >>
    /\ reqs = [r \in ReqIds |-> IdleReq]
    /\ chatLog = [k \in UserIds \X ConvIds |-> << >>]
    /\ stLog = [u \in UserIds |-> {}]
    /\ now = 0
    /\ nextId = 0
    /\ ltm = [u \in UserIds |-> {}]
    /\ nextMemId = 0
    /\ clr = IdleClr
    /\ lastOp = NoOp
    /\ prevOp = NoOp
    /\ ret = << >>
    /\ \E k \in 0..max_users : users = 1..k
    /\ regs = [g \in RegIds |-> IdleReg]
    /\ sessions = {}
    /\ nextSessId = 0
    /\ NoDevices

NextReg ==
    \/ \E g \in RegIds, id_token \in IdTokens : Register(g, id_token)
    \/ \E g \in RegIds : RegisterGetUser(g)
    \/ \E g \in RegIds : RegisterCountUsers(g)
    \/ \E g \in RegIds : CreateUserExists(g)
    \/ \E g \in RegIds : CreateUserSet(g)

SpecReg == InitReg /\ [][NextReg]_vars

\* ----------------------------------------------------------------- sessions
\* sha256 of "user:device:timestamp": a new id each time (n stands for the timestamp)
generate_session_id(user_id, device_id, n) == <<user_id, device_id, n>>

\* the session document (created_at, updated_at and expires_at, which no
\* endpoint looks at, are left out)
SessionData(session_id, user_id, device_id, data) ==
    [session_id |-> session_id, user_id |-> user_id, device_id |-> device_id, data |-> data]

\* session ids a client may send
SessionIdArgs ==
    { generate_session_id(u, d, n) : u \in UserIds, d \in DeviceIds, n \in 1..MaxSessions }

\* what an endpoint answers
Response(status, body) == [status |-> status, body |-> body]

\* FirestoreService.get_session: the document, or None
get_session(docs, session_id) ==
    IF \E d \in docs : d.session_id = session_id
    THEN CHOOSE d \in docs : d.session_id = session_id
    ELSE None

\* FirestoreService.update_session: session_ref.update({"data": data, ...})
\* writes the field `data` as a whole
update_session(docs, session_id, data) ==
    IF get_session(docs, session_id) = None THEN docs
    ELSE { IF d.session_id = session_id THEN [d EXCEPT !.data = data] ELSE d : d \in docs }

\* FirestoreService.delete_session
delete_session(docs, session_id) == { d \in docs : d.session_id # session_id }

\* POST /sessions/
CreateSession(u, device_id, initial_data) ==
    /\ nextSessId < MaxSessions
    /\ LET session_id == generate_session_id(u, device_id, nextSessId + 1)
           session == SessionData(session_id, u, device_id, initial_data)
       IN  /\ sessions' = delete_session(sessions, session_id) \cup {session}
           /\ ret' = Response(201, session)
    /\ nextSessId' = nextSessId + 1
    /\ lastOp' = Op("create_session", u, device_id, initial_data)
    /\ UNCHANGED <<cacheVars, memVars, clr, longVars, prevOp, users, regs, devVars>>

\* GET /sessions/{session_id}
GetSession(u, session_id) ==
    /\ LET session == get_session(sessions, session_id)
       IN  ret' = IF session = None THEN Response(404, None)
                  ELSE IF session.user_id # u THEN Response(403, None)
                  ELSE Response(200, session)
    /\ lastOp' = Op("get_session", u, session_id, 0)
    /\ UNCHANGED <<cacheVars, memVars, clr, longVars, prevOp, acctVars, devVars>>

\* PUT /sessions/{session_id}
UpdateSession(u, session_id, data) ==
    /\ LET session == get_session(sessions, session_id)
       IN  IF session = None
           THEN ret' = Response(404, None) /\ sessions' = sessions
           ELSE IF session.user_id # u
           THEN ret' = Response(403, None) /\ sessions' = sessions
           ELSE /\ sessions' = update_session(sessions, session_id, data)
                /\ ret' = Response(200, get_session(sessions', session_id))
    /\ lastOp' = Op("update_session", u, session_id, data)
    /\ UNCHANGED <<cacheVars, memVars, clr, longVars, prevOp, users, regs, nextSessId, devVars>>

\* a slip: the session is deleted without asking whose it is
DeleteSession_any_user(u, session_id) ==
    /\ LET session == get_session(sessions, session_id)
       IN  IF session = None
           THEN ret' = Response(404, None) /\ sessions' = sessions
           ELSE /\ sessions' = delete_session(sessions, session_id)
                /\ ret' = Response(200, <<"Session deleted successfully">>)
    /\ lastOp' = Op("delete_session", u, session_id, 0)
    /\ UNCHANGED <<cacheVars, memVars, clr, longVars, prevOp, users, regs, nextSessId, devVars>>

\* DELETE /sessions/{session_id}
DeleteSession(u, session_id) ==
    /\ LET session == get_session(sessions, session_id)
       IN  IF session = None
           THEN ret' = Response(404, None) /\ sessions' = sessions
           ELSE IF session.user_id # u
           THEN ret' = Response(403, None) /\ sessions' = sessions
           ELSE /\ sessions' = delete_session(sessions, session_id)
                /\ ret' = Response(200, <<"Session deleted successfully">>)
    /\ lastOp' = Op("delete_session", u, session_id, 0)
    /\ UNCHANGED <<cacheVars, memVars, clr, longVars, prevOp, users, regs, nextSessId, devVars>>

NextSess ==
    \/ \E u \in UserIds, device_id \in DeviceIds, initial_data \in DataArgs :
            CreateSession(u, device_id, initial_data)
    \/ \E u \in UserIds, session_id \in SessionIdArgs : GetSession(u, session_id)
    \/ \E u \in UserIds, session_id \in SessionIdArgs, data \in DataArgs :
            UpdateSession(u, session_id, data)
    \/ \E u \in UserIds, session_id \in SessionIdArgs : DeleteSession(u, session_id)

SpecSess == Init /\ [][NextSess]_vars

\* ------------------------------------------------------------- device list
\* Python's `x in list`
InList(x, list) == \E i \in 1..Len(list) : list[i] = x

\* POST /users/me/devices/{device_id} arrives for the signed-in user
AddDevice(q, device_id) ==
    /\ devReqs[q].pc = "idle"
    /\ devReqs' = [devReqs EXCEPT ![q].pc = "get_user", ![q].device_id = device_id]
    /\ UNCHANGED <<cacheVars, memVars, clr, longVars, callVars, users, regs, sessions,
                   nextSessId, userDoc>>

\* user = await self.get_user(uid), then `if device_id not in user.devices:
\* user.devices.append(device_id)` on the copy that was read
AddDeviceGetUser(q) ==
    /\ devReqs[q].pc = "get_user"
    /\ IF ~userDoc.exists \/ InList(devReqs[q].device_id, userDoc.devices)
       THEN devReqs' = [devReqs EXCEPT ![q].pc = "done", ![q].devices = userDoc.devices]
       ELSE devReqs' = [devReqs EXCEPT ![q].pc = "update_user",
                                       ![q].devices = Append(userDoc.devices, devReqs[q].device_id)]
    /\ UNCHANGED <<cacheVars, memVars, clr, longVars, callVars, users, regs, sessions,
                   nextSessId, userDoc>>

\* update_user: `if not user_ref.get().exists: return None`
UpdateUserExists(q) ==
    /\ devReqs[q].pc = "update_user"
    /\ devReqs' = [devReqs EXCEPT ![q].pc = IF userDoc.exists THEN "update" ELSE "done"]
    /\ UNCHANGED <<cacheVars, memVars, clr, longVars, callVars, users, regs, sessions,
                   nextSessId, userDoc>>

\* user_ref.update({"devices": user.devices, "last_login": ...}): the field
\* is replaced by the list of the request
UpdateUserUpdate(q) ==
    /\ devReqs[q].pc = "update"
    /\ userDoc' = [userDoc EXCEPT !.devices = devReqs[q].devices]
    /\ devReqs' = [devReqs EXCEPT ![q].pc = "get_updated"]
    /\ UNCHANGED <<cacheVars, memVars, clr, longVars, callVars, users, regs, sessions, nextSessId>>

\* return await self.get_user(uid)
UpdateUserGetUser(q) ==
    /\ devReqs[q].pc = "get_updated"
    /\ devReqs' = [devReqs EXCEPT ![q].pc = "done", ![q].devices = userDoc.devices]
    /\ UNCHANGED <<cacheVars, memVars, clr, longVars, callVars, users, regs, sessions,
                   nextSessId, userDoc>>

\* requests arrive while the user has no device or one device
InitDev ==
    /\ hist = << >>
    /\ reqs = [r \in ReqIds |-> IdleReq]
    /\ chatLog = [k \in UserIds \X ConvIds |-> << >>]
    /\ stLog = [u \in UserIds |-> {}]
    /\ now = 0
    /\ nextId = 0
    /\ ltm = [u \in UserIds |-> {}]
    /\ nextMemId = 0
    /\ clr = IdleClr
    /\ lastOp = NoOp
    /\ prevOp = NoOp
    /\ ret = << >>
    /\ users = {}
    /\ regs = [g \in RegIds |-> IdleReg]
    /\ sessions = {}
    /\ nextSessId = 0
    /\ userDoc \in { [exists |-> TRUE, devices |-> ds] : ds \in {<< >>, <<<<"d">>>>} }
    /\ devReqs = [q \in DevReqIds |-> IdleDev]

NextDev ==
    \/ \E q \in DevReqIds, device_id \in AddedDeviceIds : AddDevice(q, device_id)
    \/ \E q \in DevReqIds : AddDeviceGetUser(q)
    \/ \E q \in DevReqIds : UpdateUserExists(q)
    \/ \E q \in DevReqIds : UpdateUserUpdate(q)
    \/ \E q \in DevReqIds : UpdateUserGetUser(q)

SpecDev == InitDev /\ [][NextDev]_vars

\* ======================================================= claims on the chat turns
\* the turns of request r that some cached history holds
TurnsOf(r) ==
    { t \in UNION { { hist[k][i] : i \in 1..Len(hist[k]) } : k \in DOMAIN hist } : t.rid = r }

RECURSIVE Concat(_)
Concat(chunks) == IF chunks = << >> THEN << >> ELSE Head(chunks) \o Concat(Tail(chunks))

\* C1: when the generation stream raises after zero or more chunks, the partial
\* text is not appended: the history of the request's key holds the same turns
\* as before that step, and no turn of the request is in any history afterwards.
C1_StreamErrorKeepsHistory ==
    /\ [](\A r \in ReqIds : reqs[r].pc = "raised" => TurnsOf(r) = {})
    /\ [][\A r \in ReqIds :
            (Streaming(r) /\ reqs'[r].pc = "raised") =>
                /\ reqs'[r].err
                /\ Turns(hist', reqs[r].user, reqs[r].conv)
                       = Turns(hist, reqs[r].user, reqs[r].conv)]_vars

\* a stream has raised after it had yielded text
C1_Witness ==
    \E r \in ReqIds : reqs[r].pc = "raised" /\ reqs[r].full # << >>

\* C2: the model turn of a streamed request is appended only by the step that
\* finds the stream exhausted, its text is the concatenation in order of the
\* chunks yielded, and while chunks are being yielded no history holds a turn
\* of that request.
C2_StreamAppendsWholeTextAtEnd ==
    /\ [](\A r \in ReqIds :
            (reqs[r].kind = "stream" /\ reqs[r].pc \in {"saved_user", "streaming"})
                => TurnsOf(r) = {})
    /\ [][\A r \in ReqIds :
            (reqs[r].kind = "stream" /\ InFlight(r) /\ TurnsOf(r) = {} /\ TurnsOf(r)' # {}) =>
                /\ reqs[r].pc \in {"saved_user", "streaming"}
                /\ reqs'[r].pc = "streamed"
                /\ Turns(hist', reqs[r].user, reqs[r].conv)
                       = Turns(hist, reqs[r].user, reqs[r].conv)
                           \o << Content("user", reqs[r].msg, r),
                                 Content("model", Concat(reqs[r].yielded), r) >>]_vars

\* a stream has ended after yielding two chunks and its turns are cached
C2_Witness ==
    \E r \in ReqIds :
        /\ reqs[r].pc = "streamed" /\ Len(reqs[r].yielded) >= 2
        /\ Content("model", Concat(reqs[r].yielded), r) \in TurnsOf(r)

\* C4: a successful send_message(m, user, conv) whose completion call returns t
\* extends the history of its key by [user:m, model:t], and afterwards
\* get_active_conversations(user) includes conv.
C4_SendExtendsHistoryAndIsActive ==
    [][\A r \in ReqIds :
        (reqs[r].kind = "send" /\ reqs[r].pc = "calling"
            /\ reqs'[r].pc = "replied" /\ ~reqs'[r].err) =>
            /\ Turns(hist', reqs[r].user, reqs[r].conv)
                   = Turns(hist, reqs[r].user, reqs[r].conv)
                       \o << Content("user", reqs[r].msg, r),
                             Content("model", reqs'[r].resp, r) >>
            /\ reqs[r].conv \in get_active_conversations(hist', reqs[r].user)]_vars

\* C5: when the completion call fails, send_message returns the fixed text and
\* appends nothing: the cache is as it was before the failure.
C5_SendFailureDegrades ==
    [][\A r \in ReqIds :
        (reqs[r].kind = "send" /\ reqs[r].pc = "calling" /\ reqs'[r].err) =>
            /\ reqs'[r].pc = "replied"
            /\ reqs'[r].resp = SendApology
            /\ hist' = hist]_vars

\* a send_message whose completion call failed has returned
C5_Witness ==
    \E r \in ReqIds : reqs[r].kind = "send" /\ reqs[r].pc = "replied" /\ reqs[r].err

\* the messages of the durable log that the completion call is given
Persisted(q) == { d \in { q.prior[i] : i \in 1..Len(q.prior) } :
                    \E j \in 1..Len(q.contents) : q.contents[j].text = d.content }

\* C6 as stated: a turn that finds no cache entry for its key sends the
\* previously persisted turns of the conversation to the completion call.
C6_ColdTurnReadsDurableLog ==
    \A r \in ReqIds :
        (reqs[r].pc \in {"calling", "streaming"} /\ reqs[r].cold) =>
            Persisted(reqs[r]) = { reqs[r].prior[i] : i \in 1..Len(reqs[r].prior) }

\* C6 amended: a turn that finds no cache entry for its key sends the new user
\* message alone; nothing of the durable log is read.
C6_ColdTurnSendsMessageAlone ==
    \A r \in ReqIds :
        (reqs[r].pc \in {"calling", "streaming"} /\ reqs[r].cold) =>
            reqs[r].contents = << Content("user", reqs[r].msg, r) >>

\* a turn is in flight that found its key absent while the durable log of the
\* conversation held earlier messages
C6_Witness ==
    \E r \in ReqIds :
        reqs[r].pc \in {"calling", "streaming"} /\ reqs[r].cold /\ reqs[r].prior # << >>

SameMessage(turn, doc) ==
    /\ doc.content = turn.text
    /\ doc.role = (IF turn.role = "model" THEN "assistant" ELSE turn.role)

\* the turns s are found, in order, among the messages t
RECURSIVE IsSubseq(_, _)
IsSubseq(s, t) ==
    IF s = << >> THEN TRUE
    ELSE IF t = << >> THEN FALSE
    ELSE IF SameMessage(Head(s), Head(t)) THEN IsSubseq(Tail(s), Tail(t))
    ELSE IsSubseq(s, Tail(t))

\* C7: whenever no chat request is in flight, the cached turns of every
\* conversation are found, in the same order, in its durable message log.
C7_CacheWithinDurableLog ==
    (\A r \in ReqIds : ~InFlight(r)) =>
        \A u \in ChatUserIds, c \in ConvIds :
            IsSubseq(Turns(hist, u, c), chatLog[<<u, c>>])

\* ================================================ claims on the session cache
\* C3: clear_conversation(user, conv) followed by _get_history(user, conv)
\* returns an empty sequence, whatever turns the key held before the clear.
C3_ClearThenHistoryEmpty ==
    (/\ lastOp.op = "_get_history" /\ prevOp.op = "clear_conversation"
     /\ lastOp.user = prevOp.user /\ lastOp.arg = prevOp.arg) => ret = << >>

\* a key that held turns was cleared and then read
C3_Witness ==
    /\ lastOp.op = "_get_history" /\ prevOp.op = "clear_conversation"
    /\ lastOp.user = prevOp.user /\ lastOp.arg = prevOp.arg
    /\ prevOp.n > 0 /\ ret = << >>

\* ============================================ claims on the short-term context
\* C8: add_message(user, role, content) immediately followed by
\* get_recent_messages(user, limit=1) returns exactly the message just added.
C8_AddThenRecentOne ==
    [][(/\ lastOp.op = "add_message"
        /\ lastOp'.op = "get_recent_messages" /\ lastOp'.user = lastOp.user
        /\ lastOp'.n = 1 /\ lastOp'.arg = NoSession) => ret' = <<ret>>]_vars

\* the newest of at least two messages of a user was read back right after its write
C8_Witness ==
    /\ lastOp.op = "get_recent_messages" /\ lastOp.n = 1 /\ lastOp.arg = NoSession
    /\ prevOp.op = "add_message" /\ prevOp.user = lastOp.user
    /\ Cardinality(stLog[lastOp.user]) >= 2
    /\ Len(ret) = 1 /\ ret[1].id = nextId

\* C11: get_recent_messages(user, limit, session?) returns min(limit, n) of the
\* user's n messages (of that session when one is given): the ones appended
\* last, oldest first.
C11_RecentMessagesAreTheNewest ==
    lastOp.op = "get_recent_messages" =>
        LET mine == { d \in stLog[lastOp.user] :
                        lastOp.arg = NoSession \/ d.session_id = lastOp.arg }
            got == { ret[i] : i \in 1..Len(ret) }
        IN  /\ Len(ret) = (IF lastOp.n < Cardinality(mine) THEN lastOp.n ELSE Cardinality(mine))
            /\ got \subseteq mine
            /\ \A i, j \in 1..Len(ret) : i < j => ret[i].id < ret[j].id
            /\ \A d \in mine \ got : \A i \in 1..Len(ret) : d.id < ret[i].id

\* one message of a session was asked for and found behind a newer message
\* that belongs to no session
C11_Witness ==
    /\ lastOp.op = "get_recent_messages" /\ lastOp.arg # NoSession /\ lastOp.n = 1
    /\ Len(ret) = 1 /\ ret[1].session_id = lastOp.arg
    /\ \E d \in stLog[lastOp.user] : d.session_id = NoSession /\ d.id > ret[1].id

\* C9: clear_short_term_context(user) returns the number of messages the user's
\* log held and leaves it empty, and get_recent_messages right after it, with
\* any limit, returns an empty sequence.
C9_ClearThenRecentEmpty ==
    /\ (lastOp.op = "clear_short_term_context" /\ lastOp.arg = NoSession) =>
           (ret = lastOp.n /\ stLog[lastOp.user] = {})
    /\ (/\ lastOp.op = "get_recent_messages"
        /\ prevOp.op = "clear_short_term_context" /\ prevOp.arg = NoSession
        /\ prevOp.user = lastOp.user) => ret = << >>

\* a log of two messages was cleared and then read
C9_Witness ==
    /\ lastOp.op = "get_recent_messages"
    /\ prevOp.op = "clear_short_term_context" /\ prevOp.arg = NoSession
    /\ prevOp.user = lastOp.user /\ prevOp.n >= 2
    /\ ret = << >>

\* C10: a clear of N documents deletes N, returns N and commits ceil(N / 500)
\* batches, none empty and none of more than 500 deletions, leaving no deletion
\* uncommitted.
C10_ClearBatches ==
    /\ clr.batch < BatchLimit
    /\ \A j \in 1..Len(clr.commits) : clr.commits[j] >= 1 /\ clr.commits[j] <= BatchLimit
    /\ clr.pc = "done" =>
        /\ clr.count = clr.n
        /\ Sum(clr.commits) = clr.n
        /\ Len(clr.commits) = (clr.n + BatchLimit - 1) \div BatchLimit
        /\ clr.batch = 0

\* 600 documents were deleted in a batch of 500 and a batch of 100
C10_Witness ==
    clr.pc = "done" /\ clr.n = 600 /\ clr.count = 600 /\ clr.commits = <<500, 100>>

\* =============================================== claims on the long-term facts
\* C13: save_memory returns and stores an importance of min(max(i, 1), 10) for
\* the integer i it is given, so a value in 1..10 even for 0, -5 or 15, and 5
\* when no importance is given.
C13_SaveMemoryClampsImportance ==
    [][\A u \in MemUserIds, category \in Categories, content \in FactContents,
          importance \in ImportanceArgs :
            (lastOp'.op = "save_memory" /\ SaveMemory(u, category, content, importance)) =>
                /\ ret' \in ltm'[u]
                /\ ret'.importance \in 1..10
                /\ IF importance = << >> THEN ret'.importance = 5
                   ELSE IF importance[1] < 1 THEN ret'.importance = 1
                   ELSE IF importance[1] > 10 THEN ret'.importance = 10
                   ELSE ret'.importance = importance[1]]_vars

\* a fact saved with importance 15 is in the store with importance 10
C13_Witness ==
    /\ lastOp.op = "save_memory" /\ lastOp.n = <<15>>
    /\ ret.importance = 10 /\ ret \in ltm[lastOp.user]

\* C14: whatever save_memory, update_memory, delete_memory and
\* compress_to_long_term calls were made, every stored fact has an importance
\* in 1..10.
C14_StoredImportanceInRange ==
    \A u \in UserIds : \A d \in ltm[u] : d.importance \in 1..10

\* C15: no two facts of one user's long-term store have the same content_hash.
C15_NoDuplicateContentHash ==
    \A u \in UserIds : \A d1, d2 \in ltm[u] :
        d1.content_hash = d2.content_hash => d1 = d2

\* ================================================ claims on the summarization
\* the summarizer reply is a JSON object with the keys that were asked for
ExpectedShape(outcome) ==
    outcome.json.type = "object" /\ {"summary", "facts", "topics"} \subseteq outcome.json.keys

\* C18: compress_to_long_term for a user without short-term messages, and
\* summarize_conversation on no messages, return a result with the error
\* "No messages to summarize", call the summarizer not once and leave the
\* long-term store as it is.
C18_NothingToSummarize ==
    [][/\ \A u \in MemUserIds, outcome \in SummarizerOutcomes :
            (/\ lastOp'.op = "compress_to_long_term"
             /\ CompressToLongTerm(u, outcome) /\ stLog[u] = {}) =>
                /\ ret'.type = "object" /\ "error" \in ret'.keys
                /\ ret'.error = <<"No messages to summarize">>
                /\ "facts_saved" \notin ret'.keys /\ ret'.facts = << >>
                /\ lastOp'.n = 0
                /\ ltm' = ltm
       /\ \A u \in MemUserIds, arg \in MessagesArgs, outcome \in SummarizerOutcomes :
            (/\ lastOp'.op = "summarize_conversation"
             /\ SummarizeConversation(u, arg, outcome)
             /\ IF arg.given THEN arg.list = << >> ELSE stLog[u] = {}) =>
                /\ ret'.type = "object" /\ "error" \in ret'.keys
                /\ ret'.error = <<"No messages to summarize">>
                /\ ret'.facts = << >>
                /\ lastOp'.n = 0
                /\ ltm' = ltm]_vars

\* a user without messages but with a fact was compressed while the summarizer
\* stood ready to return a fact
C18_Witness ==
    /\ lastOp.op = "compress_to_long_term" /\ stLog[lastOp.user] = {}
    /\ lastOp.arg.kind = "returns" /\ lastOp.arg.json.facts # << >>
    /\ lastOp.n = 0 /\ "error" \in ret.keys
    /\ ltm[lastOp.user] # {}

\* C19: when the summarizer call raises or the credential is missing,
\* compress_to_long_term returns the error result of summarize_conversation as
\* it is and saves nothing: the long-term store is as before the call.
C19_SummarizerFailurePropagates ==
    [][\A u \in MemUserIds, outcome \in SummarizerOutcomes :
        (/\ lastOp'.op = "compress_to_long_term"
         /\ CompressToLongTerm(u, outcome) /\ stLog[u] # {}
         /\ outcome.kind \in {"no_key", "raises"}) =>
            /\ ret'.type = "object"
            /\ ret'.keys = {"summary", "facts", "topics", "error"}
            /\ ret'.error = outcome.text
            /\ ret'.summary = << >> /\ ret'.facts = << >> /\ ret'.topics = << >>
            /\ ltm' = ltm /\ nextMemId' = nextMemId]_vars

\* a user with a message and a fact was compressed and the summarizer call raised
C19_Witness ==
    /\ lastOp.op = "compress_to_long_term" /\ stLog[lastOp.user] # {}
    /\ lastOp.arg.kind = "raises" /\ lastOp.n = 1
    /\ "error" \in ret.keys /\ ret.error = lastOp.arg.text
    /\ ltm[lastOp.user] # {}

\* C20: when the summarizer returns a text that is not the JSON object asked
\* for, summarize_conversation and compress_to_long_term do not fail: the raw
\* text is the summary, facts and topics are empty, no error is flagged,
\* facts_saved is 0 and the long-term store is unchanged.
C20_MalformedPayloadDegrades ==
    [][/\ \A u \in MemUserIds, outcome \in SummarizerOutcomes :
            (/\ lastOp'.op = "compress_to_long_term"
             /\ CompressToLongTerm(u, outcome) /\ stLog[u] # {}
             /\ outcome.kind = "returns" /\ ~ExpectedShape(outcome)) =>
                /\ ret'.type = "object" /\ "error" \notin ret'.keys
                /\ ret'.summary = outcome.text /\ ret'.topics = << >>
                /\ "facts_saved" \in ret'.keys /\ ret'.facts_saved = 0
                /\ ret'.facts = << >>
                /\ ltm' = ltm
       /\ \A u \in MemUserIds, arg \in MessagesArgs, outcome \in SummarizerOutcomes :
            (/\ lastOp'.op = "summarize_conversation"
             /\ SummarizeConversation(u, arg, outcome)
             /\ IF arg.given THEN arg.list # << >> ELSE stLog[u] # {}
             /\ outcome.kind = "returns" /\ ~ExpectedShape(outcome)) =>
                /\ ret'.type = "object" /\ "error" \notin ret'.keys
                /\ ret'.summary = outcome.text
                /\ ret'.facts = << >> /\ ret'.topics = << >>]_vars

\* ====================================================== claims on the context
\* the messages of a user that have not expired at the time of the query
Unexpired(u) == { d \in stLog[u] : d.expires_at >= now }

\* every entry of a context is the role and content of an unexpired message
FromUnexpired(context, u) ==
    \A i \in 1..Len(context) :
        context[i].role = "system"
        \/ \E d \in Unexpired(u) : d.role = context[i].role /\ d.content = context[i].content

\* C12: get_recent_messages, get_conversation_context and build_context never
\* return a message whose expires_at is earlier than the time of the query.
C12_ExpiryHonoured ==
    /\ lastOp.op = "get_recent_messages" =>
            \A i \in 1..Len(ret) : ret[i].expires_at >= now
    /\ lastOp.op \in {"get_conversation_context", "build_context"} =>
            FromUnexpired(ret, lastOp.user)

\* the k messages appended last, oldest first, reduced to role and content
NewestMessages(docs, k) ==
    LET top == { d \in docs : Cardinality({ e \in docs : e.id > d.id }) < k }
    IN  [i \in 1..Cardinality(top) |->
            LET d == CHOOSE x \in top : Cardinality({ e \in top : e.id < x.id }) = i - 1
            IN  [role |-> d.role, content |-> d.content]]

\* C16: build_context(user, include_long_term=False) is exactly the role and
\* content of the short_term_limit most recent messages: no entry comes from
\* the long-term facts, whatever the store holds.
C16_NoLongTermWhenExcluded ==
    [][\A u \in MemUserIds, short_term_limit \in Limits, long_term_limit \in Limits :
        (/\ lastOp'.op = "build_context"
         /\ BuildContext(u, FALSE, short_term_limit, long_term_limit)) =>
            /\ ret' = NewestMessages(stLog[u], short_term_limit)
            /\ \A i \in 1..Len(ret') : ret'[i].role # "system"]_vars

\* a context without long-term memory was built for a user who has facts and
\* more messages than the limit
C16_Witness ==
    /\ lastOp.op = "build_context" /\ ~lastOp.arg.include_long_term
    /\ ltm[lastOp.user] # {}
    /\ Cardinality(stLog[lastOp.user]) > lastOp.arg.short_term_limit
    /\ Len(ret) = lastOp.arg.short_term_limit

\* top lists min(k, n) different facts of the store, none less important than
\* a fact left out, the more important first
IsTopFacts(top, docs, k) ==
    /\ Len(top) = (IF k < Cardinality(docs) THEN k ELSE Cardinality(docs))
    /\ \A i \in 1..Len(top) : top[i] \in docs
    /\ \A i, j \in 1..Len(top) : i < j => top[i] # top[j] /\ top[i].importance >= top[j].importance
    /\ \A d \in docs : (\A i \in 1..Len(top) : top[i] # d) =>
            \A i \in 1..Len(top) : top[i].importance >= d.importance

\* the text that lists the facts, one line each
RECURSIVE Listing(_)
Listing(top) ==
    IF top = << >> THEN << >>
    ELSE <<"-", " ">> \o Head(top).content
         \o (IF Len(top) > 1 THEN <<"\n">> ELSE << >>) \o Listing(Tail(top))

\* C17: build_context(user, include_long_term=True) for a user with facts is
\* one system entry that lists the long_term_limit most important facts, the
\* more important first, followed by the role and content of the
\* short_term_limit most recent messages, oldest first; for a user without
\* facts it is the short-term part alone.
C17_LongTermFirstThenRecent ==
    [][\A u \in MemUserIds, short_term_limit \in Limits, long_term_limit \in Limits :
        (/\ lastOp'.op = "build_context"
         /\ BuildContext(u, TRUE, short_term_limit, long_term_limit)) =>
            IF ltm[u] = {}
            THEN ret' = NewestMessages(stLog[u], short_term_limit)
            ELSE /\ Len(ret') >= 1 /\ ret'[1].role = "system"
                 /\ \E k \in 1..long_term_limit :
                        \E top \in [1..k -> ltm[u]] :
                            /\ IsTopFacts(top, ltm[u], long_term_limit)
                            /\ ret'[1].content
                                   = <<"User information from previous conversations:", "\n">>
                                     \o Listing(top)
                 /\ Tail(ret') = NewestMessages(stLog[u], short_term_limit)]_vars

\* a context with long-term memory was built for a user who has more facts,
\* of different importance, and more messages than the limits
C17_Witness ==
    /\ lastOp.op = "build_context" /\ lastOp.arg.include_long_term
    /\ Cardinality(ltm[lastOp.user]) > lastOp.arg.long_term_limit
    /\ \E d1, d2 \in ltm[lastOp.user] : d1.importance # d2.importance
    /\ Cardinality(stLog[lastOp.user]) > lastOp.arg.short_term_limit
    /\ Len(ret) = 1 + lastOp.arg.short_term_limit /\ ret[1].role = "system"

\* ============================================ claims on compression and listing
\* C21: when the summarizer returns the object asked for with k facts,
\* compress_to_long_term saves each of them (category 'fact' and importance 5
\* where the summarizer gives none, importance clamped to 1..10, metadata
\* source = conversation_compression), returns facts_saved = k and the k saved
\* facts in the summarizer's order, and leaves the facts of before as they were.
C21_CompressSavesEachFact ==
    [][\A u \in MemUserIds, outcome \in SummarizerOutcomes :
        (/\ lastOp'.op = "compress_to_long_term"
         /\ CompressToLongTerm(u, outcome) /\ stLog[u] # {}
         /\ outcome.kind = "returns" /\ ExpectedShape(outcome)) =>
            LET facts == outcome.json.facts
            IN  /\ ret'.type = "object" /\ "error" \notin ret'.keys
                /\ ret'.facts_saved = Len(facts) /\ Len(ret'.facts) = Len(facts)
                /\ \A i \in 1..Len(facts) :
                    /\ ret'.facts[i].content = facts[i].content
                    /\ ret'.facts[i].category
                           = (IF "category" \in facts[i].keys THEN facts[i].category ELSE "fact")
                    /\ ret'.facts[i].importance
                           = (IF "importance" \notin facts[i].keys THEN 5
                              ELSE IF facts[i].importance > 10 THEN 10
                              ELSE IF facts[i].importance < 1 THEN 1
                              ELSE facts[i].importance)
                    /\ ret'.facts[i].metadata = {<<"source", "conversation_compression">>}
                    /\ ret'.facts[i] \notin ltm[u]
                    /\ \A j \in 1..Len(facts) : i # j => ret'.facts[i] # ret'.facts[j]
                /\ ltm'[u] = ltm[u] \cup { ret'.facts[i] : i \in 1..Len(facts) }]_vars

\* a compression saved one fact, of importance 15 cut to 10, next to a fact
\* that was there before
C21_Witness ==
    /\ lastOp.op = "compress_to_long_term" /\ lastOp.arg.kind = "returns"
    /\ ret.type = "object" /\ "facts_saved" \in ret.keys /\ ret.facts_saved = 1
    /\ ret.facts[1].importance = 10 /\ ret.facts[1].category = "fact"
    /\ Cardinality(ltm[lastOp.user]) = 2

\* C22: get_memories(user, category, limit) returns at most `limit` facts of
\* the user, only facts of the category when one is given, the more important
\* first, and no fact left out is more important than a returned one; on a
\* store whose only fact was saved as ('preference', importance 7),
\* get_memories(user) returns exactly that fact.
C22_MemoriesByImportance ==
    [][\A u \in MemUserIds, category \in ListCategories \cup {NoCategory}, limit \in Limits :
        (/\ lastOp'.op = "get_memories"
         /\ GetMemories(u, category, limit)) =>
            LET asked == IF category = NoCategory THEN ltm[u]
                         ELSE { d \in ltm[u] : d.category = category }
            IN  /\ Len(ret') <= limit
                /\ IsTopFacts(ret', asked, limit)
                /\ (category = NoCategory /\ Cardinality(ltm[u]) = 1) =>
                        /\ Len(ret') = 1
                        /\ \A d \in ltm[u] : /\ ret'[1].importance = d.importance
                                              /\ ret'[1].category = d.category
                                              /\ ret'[1].content = d.content]_vars

\* get_memories(user, 'preference', 1) returned the preference of importance 7
\* while the store also holds a more important fact of another category
C22_Witness ==
    /\ lastOp.op = "get_memories" /\ lastOp.arg = "preference" /\ lastOp.n = 1
    /\ Len(ret) = 1 /\ ret[1].importance = 7 /\ ret[1].category = "preference"
    /\ \E d \in ltm[lastOp.user] : d.category = "fact" /\ d.importance > 7

C24_ExistenceChecked ==
    [][\A u \in MemUserIds, memory_id \in 1..MaxFacts :
        /\ (/\ lastOp'.op = "update_memory" /\ lastOp'.arg = memory_id
            /\ \E updates \in Updates : UpdateMemory(u, memory_id, updates)) =>
                IF \A d \in ltm[u] : d.id # memory_id
                THEN ret' = None /\ ltm' = ltm
                ELSE /\ ret' # None /\ ret'.id = memory_id /\ ret' \in ltm'[u]
                     /\ \E updates \in Updates : \E d \in ltm[u] :
                            /\ d.id = memory_id
                            /\ \A k \in DOMAIN d :
                                   ret'[k] = (IF k \in DOMAIN updates THEN updates[k] ELSE d[k])
                     /\ \A d \in ltm[u] : d.id # memory_id => d \in ltm'[u]
                     /\ \A d \in ltm'[u] : d.id # memory_id => d \in ltm[u]
        /\ (/\ lastOp'.op = "delete_memory" /\ lastOp'.arg = memory_id
            /\ DeleteMemory(u, memory_id)) =>
                IF \A d \in ltm[u] : d.id # memory_id
                THEN ret' = FALSE /\ ltm' = ltm
                ELSE /\ ret' = TRUE
                     /\ \A category \in ListCategories \cup {NoCategory}, limit \in Limits \cup {50} :
                          \A top \in {get_memories(ltm'[u], category, limit)} :
                            \A i \in 1..Len(top) : top[i].id # memory_id
                     /\ ltm'[u] = { d \in ltm[u] : d.id # memory_id }]_vars

\* a fact was deleted from a store that keeps another fact
C24_Witness ==
    /\ lastOp.op = "delete_memory" /\ ret = TRUE
    /\ ltm[lastOp.user] # {}
    /\ \A d \in ltm[lastOp.user] : d.id # lastOp.arg

\* ===================================================== claims on registration
\* C25: whatever the interleaving of the registration requests, the users
\* collection never holds more than max_users documents, and a registration
\* that finds the limit reached is answered 403 and creates no user.
C25_UserLimitEnforced ==
    /\ Cardinality(users) <= max_users
    /\ \A g \in RegIds :
        (regs[g].pc = "done" /\ regs[g].user_count >= max_users) => regs[g].status = 403

\* ========================================================= claims on sessions
\* the session with this id, if the store holds one
Stored(session_id) == { d \in sessions : d.session_id = session_id }

\* C26: the get, update and delete session endpoints answer 404 for an id
\* with no session and 403 for a session of another user, and in both cases
\* leave the store as it is; only the owner is answered 200.
C26_OnlyOwnerReachesSession ==
    [][\A u \in UserIds, session_id \in SessionIdArgs :
        (/\ lastOp'.op \in {"get_session", "update_session", "delete_session"}
         /\ lastOp'.user = u /\ lastOp'.arg = session_id
         /\ \/ GetSession(u, session_id)
            \/ \E data \in DataArgs : UpdateSession(u, session_id, data)
            \/ DeleteSession(u, session_id)) =>
            IF Stored(session_id) = {}
            THEN ret'.status = 404 /\ sessions' = sessions
            ELSE IF \E d \in Stored(session_id) : d.user_id # u
            THEN ret'.status = 403 /\ sessions' = sessions
            ELSE ret'.status = 200]_vars

\* a user asked to delete the session of another user and was answered 403
C26_Witness ==
    /\ lastOp.op = "delete_session" /\ ret.status = 403
    /\ \E d \in sessions : d.session_id = lastOp.arg /\ d.user_id # lastOp.user /\ d.data # {}

\* C27: update_session(session_id, data) merges: afterwards the stored data
\* has data's value for every key of data and the value of before for every
\* other key.
C27_UpdateMerges ==
    [][\A u \in UserIds, session_id \in SessionIdArgs, data \in DataArgs :
        (/\ lastOp'.op = "update_session" /\ lastOp'.user = u
         /\ lastOp'.arg = session_id /\ lastOp'.n = data
         /\ UpdateSession(u, session_id, data) /\ ret'.status = 200) =>
            \A before \in Stored(session_id) : \E after \in sessions' :
                /\ after.session_id = session_id
                /\ \A item \in data : item \in after.data
                /\ \A item \in before.data :
                        (\A new \in data : new[1] # item[1]) => item \in after.data]_vars

\* ============================================ claims on concurrent chat turns
\* C28 as stated: while the completion call of send_message for message m is
\* outstanding, the cached history of its key already ends with [user:m].
C28_UserTurnCachedBeforeCall ==
    \A r \in ReqIds :
        (reqs[r].kind = "send" /\ reqs[r].pc = "calling") =>
            LET turns == Turns(hist, reqs[r].user, reqs[r].conv)
            IN  turns # << >> /\ turns[Len(turns)] = Content("user", reqs[r].msg, r)

\* C28 amended: while the completion call of send_message for message m is
\* outstanding, no cached history holds a turn of the request - the user
\* message is only the last entry of the contents sent; the step in which the
\* call returns appends the user turn and then the model turn.
C28_TurnsCachedAfterCall ==
    /\ [](\A r \in ReqIds :
            (reqs[r].kind = "send" /\ reqs[r].pc = "calling") =>
                /\ TurnsOf(r) = {}
                /\ reqs[r].contents # << >>
                /\ reqs[r].contents[Len(reqs[r].contents)] = Content("user", reqs[r].msg, r))
    /\ [][\A r \in ReqIds :
            (reqs[r].kind = "send" /\ TurnsOf(r) = {} /\ TurnsOf(r)' # {}) =>
                /\ reqs[r].pc = "calling" /\ reqs'[r].pc = "replied"
                /\ LET turns == Turns(hist', reqs[r].user, reqs[r].conv)
                   IN  /\ Len(turns) >= 2
                       /\ turns[Len(turns) - 1] = Content("user", reqs[r].msg, r)
                       /\ turns[Len(turns)] = Content("model", reqs'[r].resp, r)]_vars

\* a completion call is outstanding on a key whose history holds an earlier
\* turn and nothing of this request
C28_Witness ==
    \E r \in ReqIds :
        /\ reqs[r].kind = "send" /\ reqs[r].pc = "calling"
        /\ Len(Turns(hist, reqs[r].user, reqs[r].conv)) = 2
        /\ Len(reqs[r].contents) = 3
        /\ TurnsOf(r) = {}

\* every cached history is a sequence of pairs: a user entry followed by the
\* model reply of the same request
WellFormed ==
    \A key \in DOMAIN hist :
        /\ Len(hist[key]) % 2 = 0
        /\ \A i \in 1..Len(hist[key]) :
            IF i % 2 = 1
            THEN /\ hist[key][i].role = "user"
                 /\ hist[key][i + 1].rid = hist[key][i].rid
            ELSE hist[key][i].role = "model"

\* C29: whatever the interleaving of the chat turns on one key, every cached
\* history has even length and alternates user, model, each user entry being
\* followed by the reply of its own request; and the step that completes a
\* turn adds exactly that pair at the end of the history of its key and
\* keeps every turn the cache held.
C29_TurnsStayPaired ==
    /\ []WellFormed
    /\ [][\A r \in ReqIds :
            (reqs[r].kind \in {"send", "stream"} /\ TurnsOf(r) = {} /\ TurnsOf(r)' # {}) =>
                LET key == _get_session_key(reqs[r].user, reqs[r].conv)
                IN  /\ Turns(hist', reqs[r].user, reqs[r].conv)
                           = Turns(hist, reqs[r].user, reqs[r].conv)
                               \o << Content("user", reqs[r].msg, r),
                                     Content("model", reqs'[r].resp, r) >>
                    /\ \A k \in DOMAIN hist \ {key} : k \in DOMAIN hist' /\ hist'[k] = hist[k]]_vars

\* a send and a stream on one key that both read the empty history have both
\* completed: the history holds the two pairs
C29_Witness ==
    \E r1, r2 \in ReqIds :
        /\ reqs[r1].kind = "send" /\ reqs[r1].pc = "replied" /\ ~reqs[r1].err
        /\ reqs[r2].kind = "stream" /\ reqs[r2].pc = "streamed"
        /\ reqs[r1].user = reqs[r2].user /\ reqs[r1].conv = reqs[r2].conv
        /\ Len(reqs[r1].contents) = 1 /\ Len(reqs[r2].contents) = 1
        /\ Len(Turns(hist, reqs[r1].user, reqs[r1].conv)) = 4

\* C30: a clear is not undone by a turn that was in flight: a turn that read
\* the history of its key before clear_conversation removed the key does not
\* put its entries into the cache afterwards - when a turn appends, the key
\* it created when it started is still there.
C30_ClearNotUndone ==
    [][\A r \in ReqIds :
        (/\ reqs[r].kind \in {"send", "stream"} /\ reqs[r].pc \in {"calling", "streaming"}
         /\ TurnsOf(r) = {} /\ TurnsOf(r)' # {}) =>
            _get_session_key(reqs[r].user, reqs[r].conv) \in DOMAIN hist]_vars

\* ============================================== claims on the cache's keys
\* the conversation a conversation-id argument denotes
Denoted(c) == IF c = NoConv THEN DefaultConv ELSE c

\* C31: get_active_conversations(user) returns exactly the conversation ids
\* for which the cache holds an entry of the user, each id as it was given,
\* also when the id contains ':' or the user's key prefix.
C31_ActiveConversationsExact ==
    [][\A u \in UserIds :
        (/\ lastOp'.op = "get_active_conversations" /\ lastOp'.user = u
         /\ GetActiveConversations(u)) =>
            ret' = { Denoted(c) : c \in { a \in ConvArgs :
                                            _get_session_key(u, a) \in DOMAIN hist } }]_vars

\* two (user, conversation) arguments that denote different pairs
OtherPair(u, c, v, d) == u # v \/ Denoted(c) # Denoted(d)

C37_ChatRecordsPairOrNothing ==
    [][\A u \in MemUserIds :
        (lastOp'.op = "chat" /\ lastOp'.user = u) =>
            LET gained == stLog'[u] \ stLog[u]
            IN  /\ stLog[u] \subseteq stLog'[u]
                /\ IF ret'.success
                   THEN \E d1, d2 \in gained :
                            /\ gained = {d1, d2}
                            /\ d1.role = "user" /\ d1.content = lastOp'.arg
                            /\ d2.role = "assistant" /\ d2.content = ret'.message
                            /\ d1.timestamp < d2.timestamp
                   ELSE gained = {}]_vars

\* ========================================== claims on the short-term log's size
\* C33: after any sequence of add_message, chat and compress_to_long_term
\* calls a user's short-term log holds at most max_short_term_messages (50)
\* messages.
C33_ShortTermBounded ==
    \A u \in UserIds : Cardinality(stLog[u]) <= 50

\* ================================================= claims on what is left alone
\* C34: compress_to_long_term and summarize_conversation leave the short-term
\* log as it is whatever the summarizer does (it succeeds, there is nothing to
\* summarize, it fails, its payload is malformed): no message is deleted,
\* added or modified, and the next compression is given the same messages.
C34_CompressionKeepsLog ==
    [][lastOp'.op \in {"compress_to_long_term", "summarize_conversation"} =>
        /\ stLog' = stLog
        /\ \A u \in UserIds :
               get_conversation_context(stLog'[u], summarize_limit)
                   = get_conversation_context(stLog[u], summarize_limit)]_vars

\* a compression has saved a fact and the two messages it summarized are
\* still in the log
C34_Witness ==
    /\ lastOp.op = "compress_to_long_term" /\ lastOp.n = 1
    /\ ret.type = "object" /\ "facts_saved" \in ret.keys /\ ret.facts_saved >= 1
    /\ Cardinality(stLog[lastOp.user]) = 2

\* C35: the content_hash of every stored fact is the digest of the content the
\* fact has now, also after update_memory has changed the content.
C35_HashFollowsContent ==
    \A u \in UserIds : \A d \in ltm[u] : d.content_hash = sha256_16(d.content)

\* the letters of the texts a user wrote
Letters(u) == {OwnMessage(u)[1], OwnFact(u)[1]}
Mentions(text, letters) == \E i \in 1..Len(text) : text[i] \in letters

\* C36: the Context Store is kept apart per user: an operation of
\* MemoryService called for user A leaves the messages and facts of every
\* other user as they were, and what it returns is made of A's messages and
\* facts only.
C36_UsersIsolated ==
    [][\A u \in UserIds :
        (/\ lastOp'.op \in {"add_message", "get_recent_messages", "clear_short_term_context",
                            "save_memory", "get_memories", "search_memories", "update_memory",
                            "delete_memory", "compress_to_long_term", "build_context"}
         /\ lastOp'.user = u) =>
            /\ \A v \in UserIds \ {u} : stLog'[v] = stLog[v] /\ ltm'[v] = ltm[v]
            /\ lastOp'.op = "get_recent_messages" => \A i \in 1..Len(ret') : ret'[i] \in stLog[u]
            /\ lastOp'.op \in {"get_memories", "search_memories"} =>
                    \A i \in 1..Len(ret') : ret'[i] \in ltm[u]
            /\ lastOp'.op \in {"add_message"} => ret' \in stLog'[u]
            /\ lastOp'.op \in {"save_memory"} => ret' \in ltm'[u]
            /\ lastOp'.op = "update_memory" =>
                    (ret' = None \/ (ret' \in ltm'[u] /\ \E d \in ltm[u] : d.id = ret'.id))
            /\ lastOp'.op = "delete_memory" =>
                    ret' = (\E d \in ltm[u] : d.id = lastOp'.arg)
            /\ lastOp'.op = "clear_short_term_context" => ret' = Cardinality(stLog[u])
            /\ lastOp'.op = "build_context" =>
                    \A i \in 1..Len(ret') : \A v \in UserIds \ {u} :
                        ~Mentions(ret'[i].content, Letters(v))]_vars

\* a user asked to update the fact of another user by its id and was told
\* that there is no such fact
C36_Witness ==
    /\ lastOp.op = "update_memory" /\ ret = None
    /\ \E v \in UserIds \ {lastOp.user} : \E d \in ltm[v] : d.id = lastOp.arg

\* ======================================================= claims on the devices
DuplicateFree(list) == \A i, j \in 1..Len(list) : list[i] = list[j] => i = j

\* C38: add_device_to_user keeps the device list free of duplicates and
\* loses no device: once add-device requests of one user with different
\* device ids have all completed, every one of those ids is in the list.
C38_NoDeviceLost ==
    /\ DuplicateFree(userDoc.devices)
    /\ (/\ \A q \in DevReqIds : devReqs[q].pc \in {"idle", "done"}
        /\ \A p, q \in DevReqIds :
                (p # q /\ devReqs[p].pc = "done" /\ devReqs[q].pc = "done")
                    => devReqs[p].device_id # devReqs[q].device_id)
            => \A q \in DevReqIds :
                    devReqs[q].pc = "done" => InList(devReqs[q].device_id, userDoc.devices)

\* ============================================ claims on the stored messages
\* C39: every stored message expires exactly the short-term TTL (24 hours)
\* after its creation timestamp, and no operation changes a stored message:
\* a message of the log is either still there with the same timestamp,
\* expires_at, role and content, or has been deleted.
C39_ExpiryExactAndImmutable ==
    /\ [](\A u \in UserIds : \A d \in stLog[u] :
            d.expires_at = d.timestamp + short_term_expiry_hours * TicksPerHour)
    /\ [][\A u \in UserIds : \A d \in stLog[u] :
            \A e \in stLog'[u] : e.id = d.id => e = d]_vars

====
